---- MODULE Spec2Model ----
(***************************************************************************)
(* Verification model of the book-recommendation engine of                 *)
(* perpustakaan_sdn (backend/src/services/recommendation.ts).              *)
(*                                                                         *)
(* Strings are sequences of one-character strings.  An optional field is   *)
(* <<>> when it is null/undefined and <<v>> when it holds the value v.     *)
(* Numbers are integers: TF-IDF weights and genre bits over one common     *)
(* unit with logarithms rounded to tenths, a cosine as the sign and the    *)
(* reduced square of its value, a personalised score as a reduced          *)
(* fraction.  Rounding of IEEE doubles is not modelled.                    *)
(***************************************************************************)
EXTENDS Integers, Sequences, FiniteSets, TLC

VARIABLES
    allBooks,   \* the catalog snapshot handed to the engine (Book[])
    call,       \* the arguments of the latest engine call
    result,     \* what that call returned (BookWithSimilarity[])
    log,        \* the console.warn / console.error lines that call wrote
    now,        \* the system clock read by Date.now(), in days
    requests,   \* the engine invocations of concurrent requests
    http,       \* the HTTP request being served by the routes
    bookHistory, \* the rows of the book_history table
    users,      \* the users table
    client,     \* the browser: the auth store, localStorage, the router, a view
    heap        \* the objects an engine call is given and those it creates

vars == <<allBooks, call, result, log, now, requests, http, bookHistory, users, client, heap>>

\* the state of the HTTP layer and of the browser
web == <<http, bookHistory, users, client>>

-----------------------------------------------------------------------------
(* Bounds of the model *)

MaxBooks == 3

MaxTopN == 2

MaxPool == 21

-----------------------------------------------------------------------------
(* Generic helpers *)

None == <<>>

Some(v) == <<v>>

Max(a, b) == IF a >= b THEN a ELSE b

Min(a, b) == IF a <= b THEN a ELSE b

RECURSIVE Gcd(_, _)
Gcd(a, b) == IF b = 0 THEN a ELSE Gcd(b, a % b)

RECURSIVE SumSeq(_)
SumSeq(s) == IF s = <<>> THEN 0 ELSE Head(s) + SumSeq(Tail(s))

RECURSIVE SumFun(_, _)
\* sum of f[k] over the keys k of the set keys
SumFun(f, keys) ==
    IF keys = {} THEN 0
    ELSE LET k == CHOOSE x \in keys : TRUE
         IN  f[k] + SumFun(f, keys \ {k})

\* Array.prototype.findIndex / find over the outcomes of the callback, one
\* per element: the first position that holds TRUE, 0 for JavaScript's -1
FirstIndex(hits) ==
    IF \E i \in 1..Len(hits) : hits[i]
    THEN CHOOSE i \in 1..Len(hits) : hits[i] /\ \A j \in 1..(i - 1) : ~hits[j]
    ELSE 0

\* Array.prototype.slice(0, n): a negative n counts from the end
SliceTo(s, n) ==
    LET end == IF n < 0 THEN Max(Len(s) + n, 0) ELSE Min(n, Len(s))
    IN  SubSeq(s, 1, end)

-----------------------------------------------------------------------------
(* Strings *)

\* String.prototype.toLowerCase on one character
LowerChar(c) ==
    CASE c = "A" -> "a"
      [] c = "B" -> "b"
      [] c = "F" -> "f"
      [] c = "S" -> "s"
      [] OTHER   -> c

toLowerCase(s) == [i \in 1..Len(s) |-> LowerChar(s[i])]

\* UTF-16 code unit of a character, the order of Array.prototype.sort()
CharCode(c) ==
    CASE c = " " -> 32
      [] c = "," -> 44
      [] c = "A" -> 65
      [] c = "B" -> 66
      [] c = "F" -> 70
      [] c = "S" -> 83
      [] c = "a" -> 97
      [] c = "b" -> 98
      [] c = "f" -> 102
      [] c = "s" -> 115

RECURSIVE StrLess(_, _)
\* s sorts strictly before t by code units
StrLess(s, t) ==
    IF t = <<>> THEN FALSE
    ELSE IF s = <<>> THEN TRUE
    ELSE IF Head(s) # Head(t) THEN CharCode(Head(s)) < CharCode(Head(t))
    ELSE StrLess(Tail(s), Tail(t))

RECURSIVE trimStart(_)
trimStart(s) ==
    IF s # <<>> /\ Head(s) = " " THEN trimStart(Tail(s)) ELSE s

RECURSIVE trimEnd(_)
trimEnd(s) ==
    IF s # <<>> /\ s[Len(s)] = " " THEN trimEnd(SubSeq(s, 1, Len(s) - 1)) ELSE s

\* String.prototype.trim
trim(s) == trimEnd(trimStart(s))

RECURSIVE split(_, _)
\* String.prototype.split(sep) for a one-character separator
split(s, sep) ==
    IF \E i \in 1..Len(s) : s[i] = sep
    THEN LET i == CHOOSE k \in 1..Len(s) :
                    s[k] = sep /\ \A j \in 1..(k - 1) : s[j] # sep
         IN  <<SubSeq(s, 1, i - 1)>> \o split(SubSeq(s, i + 1, Len(s)), sep)
    ELSE <<s>>

\* String.prototype.includes
includes(s, sub) ==
    \E i \in 0..(Len(s) - Len(sub)) : SubSeq(s, i + 1, i + Len(sub)) = sub

\* the values of a sequence as a set
Range(s) == {s[i] : i \in 1..Len(s)}

RECURSIVE SortStrings(_)
\* Array.from(set).sort(): the strings of the set in code-unit order
SortStrings(set) ==
    IF set = {} THEN <<>>
    ELSE LET m == CHOOSE x \in set : \A y \in set \ {x} : StrLess(x, y)
         IN  <<m>> \o SortStrings(set \ {m})

-----------------------------------------------------------------------------
(* Term Extractor and TF-IDF Builder (services/tfidf.ts, imported at       *)
(* recommendation.ts:4; modelled from the specification, section 4.1)      *)

IsWordChar(c) == c \notin {" ", ","}

RECURSIVE takeWord(_)
\* the leading run of word characters
takeWord(s) ==
    IF s # <<>> /\ IsWordChar(Head(s)) THEN <<Head(s)>> \o takeWord(Tail(s))
    ELSE <<>>

RECURSIVE tokenize(_)
\* the terms of a text: maximal runs of word characters after lower-casing
tokenize(text) ==
    LET s == toLowerCase(text)
    IN  IF s = <<>> THEN <<>>
        ELSE IF ~IsWordChar(Head(s)) THEN tokenize(Tail(s))
        ELSE LET w == takeWord(s)
             IN  <<w>> \o tokenize(SubSeq(s, Len(w) + 1, Len(s)))

\* term frequencies are fractions count/total; they are carried over the
\* common denominator TFDen (every document of the model has a number of
\* terms that divides it)
TFDen == 2

\* natural logarithms of 1..6 in tenths, rounded: ln 2 = 0.69, ln 3 = 1.10,
\* ln 4 = 1.39, ln 5 = 1.61, ln 6 = 1.79
LnTenths == <<0, 7, 11, 14, 16, 18>>

\* one unit of weight: the integer that stands for the real number 1
One == TFDen * 10

\* log(N / df), document frequency floored at 1
idf(N, df) == LnTenths[N] - LnTenths[Max(df, 1)]

countOf(term, terms) == Cardinality({i \in 1..Len(terms) : terms[i] = term})

\* calculateTFIDF: one term -> weight vector per document
calculateTFIDF(documents) ==
    LET N        == Len(documents)
        terms(i) == tokenize(documents[i])
        df(t)    == Cardinality({i \in 1..N : t \in Range(terms(i))})
    IN  [i \in 1..N |->
            [t \in Range(terms(i)) |->
                countOf(t, terms(i)) * (TFDen \div Len(terms(i))) * idf(N, df(t))]]

\* A real number r >= -1 whose square is rational: r = sign * sqrt(num / den),
\* num / den in lowest terms.
Root(sign, num, den) ==
    IF num = 0 \/ sign = 0 THEN [sign |-> 0, num |-> 0, den |-> 1]
    ELSE LET g == Gcd(num, den)
         IN  [sign |-> sign, num |-> num \div g, den |-> den \div g]

Sign(x) == IF x > 0 THEN 1 ELSE IF x < 0 THEN -1 ELSE 0

\* cosineSimilarity: dot product over the product of the Euclidean norms,
\* 0 when either norm is 0
cosineSimilarity(vecA, vecB) ==
    LET keys  == DOMAIN vecA
        dot   == SumFun([k \in keys |->
                     vecA[k] * (IF k \in DOMAIN vecB THEN vecB[k] ELSE 0)], keys)
        normA == SumFun([k \in keys |-> vecA[k] * vecA[k]], keys)
        normB == SumFun([k \in DOMAIN vecB |-> vecB[k] * vecB[k]], DOMAIN vecB)
    IN  IF normA = 0 \/ normB = 0 THEN Root(0, 0, 1)
        ELSE Root(Sign(dot), dot * dot, normA * normB)

RECURSIVE FracCmp(_, _, _, _)
\* the sign of a/b - c/d for a, c >= 0 and b, d > 0, without a product
FracCmp(a, b, c, d) ==
    LET qa == a \div b
        qc == c \div d
        ra == a % b
        rc == c % d
    IN  IF qa # qc THEN Sign(qa - qc)
        ELSE IF ra = 0 /\ rc = 0 THEN 0
        ELSE IF ra = 0 THEN -1
        ELSE IF rc = 0 THEN 1
        ELSE FracCmp(d, rc, b, ra)

\* the sign of x - y for two Root values
RootCmp(x, y) ==
    IF x.sign # y.sign THEN Sign(x.sign - y.sign)
    ELSE IF x.sign = 0 THEN 0
    ELSE x.sign * FracCmp(x.num, x.den, y.num, y.den)

-----------------------------------------------------------------------------
(* Categorical Encoder and Feature Composer *)

\* !book.genre_name: null, undefined and "" are falsy
Falsy(opt) == opt = None \/ opt = Some(<<>>)

\* book.genre_name.split(',').map(g => g.trim().toLowerCase())
bookGenresOf(book) ==
    LET parts == split(book.genre_name[1], ",")
    IN  [i \in 1..Len(parts) |-> toLowerCase(trim(parts[i]))]

\* the template literal `${book.id}` of a diagnostic line
Diag(level, what, book) == [level |-> level, what |-> what, id |-> book.id]

\* the encoder comparing the vocabulary label as it is: includes(genre)
createGenreVectorCaseSensitive(book, allGenres) ==
    IF Falsy(book.genre_name)
    THEN [i \in 1..Len(allGenres) |-> 0]
    ELSE [i \in 1..Len(allGenres) |->
             IF allGenres[i] \in Range(bookGenresOf(book)) THEN 1 ELSE 0]

createGenreVector(book, allGenres) ==
    IF Falsy(book.genre_name)
    THEN [i \in 1..Len(allGenres) |-> 0]
    ELSE [i \in 1..Len(allGenres) |->
             IF toLowerCase(allGenres[i]) \in Range(bookGenresOf(book))
             THEN 1 ELSE 0]

\* the vocabulary of labels that are lower-cased but not trimmed
extractAllGenresNoTrim(books) ==
    SortStrings(UNION {{toLowerCase(part) : part \in Range(split(books[i].genre_name[1], ","))} :
                          i \in {j \in 1..Len(books) : ~Falsy(books[j].genre_name)}})

\* a vocabulary kept outside the call: built from the books table as it is
\* now, not from the books argument
extractAllGenresShared(books) ==
    SortStrings(UNION {Range(bookGenresOf(allBooks[i])) :
                          i \in {j \in 1..Len(allBooks) : ~Falsy(allBooks[j].genre_name)}})

extractAllGenres(books) ==
    SortStrings(UNION {Range(bookGenresOf(books[i])) :
                          i \in {j \in 1..Len(books) : ~Falsy(books[j].genre_name)}})

\* the composer keeping only the terms the book itself has (a sparse vector)
combineVectorsSparse(titleVector, genreVector, synopsisVector, allTitleTerms, allSynopsisTerms) ==
    LET keys == {<<"title", t>> : t \in DOMAIN titleVector}
                \cup {<<"genre", i>> : i \in 1..Len(genreVector)}
                \cup {<<"synopsis", t>> : t \in DOMAIN synopsisVector}
    IN  [k \in keys |->
            CASE k[1] = "title" -> titleVector[k[2]]
              [] k[1] = "genre" -> genreVector[k[2]] * One
              [] k[1] = "synopsis" -> synopsisVector[k[2]]]

\* the composer writing a genre the book lacks as -1 instead of 0
combineVectorsSigned(titleVector, genreVector, synopsisVector, allTitleTerms, allSynopsisTerms) ==
    LET keys == {<<"title", t>> : t \in allTitleTerms}
                \cup {<<"genre", i>> : i \in 1..Len(genreVector)}
                \cup {<<"synopsis", t>> : t \in allSynopsisTerms}
    IN  [k \in keys |->
            CASE k[1] = "title" ->
                    IF k[2] \in DOMAIN titleVector THEN titleVector[k[2]] ELSE 0
              [] k[1] = "genre" -> (2 * genreVector[k[2]] - 1) * One
              [] k[1] = "synopsis" ->
                    IF k[2] \in DOMAIN synopsisVector THEN synopsisVector[k[2]] ELSE 0]

\* the composer leaving the genre block at 0
combineVectorsNoGenre(titleVector, genreVector, synopsisVector, allTitleTerms, allSynopsisTerms) ==
    LET keys == {<<"title", t>> : t \in allTitleTerms}
                \cup {<<"genre", i>> : i \in 1..Len(genreVector)}
                \cup {<<"synopsis", t>> : t \in allSynopsisTerms}
    IN  [k \in keys |->
            CASE k[1] = "title" ->
                    IF k[2] \in DOMAIN titleVector THEN titleVector[k[2]] ELSE 0
              [] k[1] = "genre" -> 0
              [] k[1] = "synopsis" ->
                    IF k[2] \in DOMAIN synopsisVector THEN synopsisVector[k[2]] ELSE 0]

combineVectors(titleVector, genreVector, synopsisVector, allTitleTerms, allSynopsisTerms) ==
    LET keys == {<<"title", t>> : t \in allTitleTerms}
                \cup {<<"genre", i>> : i \in 1..Len(genreVector)}
                \cup {<<"synopsis", t>> : t \in allSynopsisTerms}
    IN  [k \in keys |->
            CASE k[1] = "title" ->
                    IF k[2] \in DOMAIN titleVector THEN titleVector[k[2]] ELSE 0
              [] k[1] = "genre" -> genreVector[k[2]] * One
              [] k[1] = "synopsis" ->
                    IF k[2] \in DOMAIN synopsisVector THEN synopsisVector[k[2]] ELSE 0]

-----------------------------------------------------------------------------
(* Similarity Engine *)

\* Array.prototype.sort of n elements with a consistent comparator (stable
\* since ES2019): before[i][j] is "the comparator is negative on elements
\* i and j".  The result lists the old positions in their new order; an
\* element's place is one more than the number of elements ahead of it.
StableSortOrder(n, before) ==
    LET place == [i \in 1..n |->
                    1 + Cardinality({j \in 1..n :
                            \/ before[j][i]
                            \/ (~before[i][j] /\ j < i)})] \o <<>>
    IN  [p \in 1..n |-> CHOOSE i \in 1..n : place[i] = p]

\* the comparator with its operands exchanged: (a, b) => a.similarity - b.similarity
BySimilarityAsc(a, b) == RootCmp(a.similarity, b.similarity) < 0

\* (a, b) => b.similarity - a.similarity
BySimilarityDesc(a, b) == RootCmp(b.similarity, a.similarity) < 0

\* the filter testing only for null, so that an empty genre string passes
HasGenreNotNull(book) == book.genre_name # None

\* the filter callback of getRecommendations: keep a book that has a genre
HasGenre(book) == ~Falsy(book.genre_name)

\* validBooks
validBooksOf(books) == SelectSeq(books, HasGenre)

\* the filter callback without its console.warn
SkipWarningsSilent(books) == <<>>

\* the warnings the filter callback writes, one per skipped book, in order
SkipWarnings(books) ==
    LET skipped == SelectSeq(books, LAMBDA b : ~HasGenre(b))
    IN  [i \in 1..Len(skipped) |-> Diag("warn", "skip", skipped[i])]

\* Steps 1 and 2 of getRecommendations: the vocabulary of the valid books
\* and the genre vector of each of them over it
genreVectorsOf(validBooks) ==
    LET allGenres == extractAllGenres(validBooks)
    IN  [allGenres    |-> allGenres,
         genreVectors |-> [i \in 1..Len(validBooks) |->
                              createGenreVector(validBooks[i], allGenres)]]

\* Steps 1 to 6 of getRecommendations: one combined vector per valid book
combinedVectorsOf(validBooks) ==
    LET genreVectors     == genreVectorsOf(validBooks).genreVectors
        titleTFIDF       == calculateTFIDF(
                                [i \in 1..Len(validBooks) |-> validBooks[i].title])
        synopsisTFIDF    == calculateTFIDF(
                                [i \in 1..Len(validBooks) |->
                                    IF Falsy(validBooks[i].synopsis) THEN <<>>
                                    ELSE validBooks[i].synopsis[1]])
        allTitleTerms    == UNION {DOMAIN titleTFIDF[i] : i \in 1..Len(validBooks)}
        allSynopsisTerms == UNION {DOMAIN synopsisTFIDF[i] : i \in 1..Len(validBooks)}
    IN  [i \in 1..Len(validBooks) |->
            combineVectors(titleTFIDF[i], genreVectors[i], synopsisTFIDF[i],
                           allTitleTerms, allSynopsisTerms)]

\* Step 8 without the "if (i === targetIndex) continue"
similaritiesOfNoSkip(validBooks, targetIndex) ==
    LET combinedVectors == combinedVectorsOf(validBooks)
    IN  [i \in 1..Len(validBooks) |->
            [book       |-> validBooks[i],
             similarity |-> cosineSimilarity(combinedVectors[targetIndex],
                                             combinedVectors[i])]]

\* Step 8 reading the vector at the position in the output list instead of
\* the position in validBooks
similaritiesOfByListIndex(validBooks, targetIndex) ==
    LET combinedVectors == combinedVectorsOf(validBooks)
        others          == SelectSeq([i \in 1..Len(validBooks) |-> i],
                                     LAMBDA i : i # targetIndex)
    IN  [k \in 1..Len(others) |->
            [book       |-> validBooks[others[k]],
             similarity |-> cosineSimilarity(combinedVectors[targetIndex],
                                             combinedVectors[k])]]

\* Step 8: the similarity of every valid book but the target, in corpus order
similaritiesOf(validBooks, targetIndex) ==
    LET combinedVectors == combinedVectorsOf(validBooks)
        others          == SelectSeq([i \in 1..Len(validBooks) |-> i],
                                     LAMBDA i : i # targetIndex)
    IN  [k \in 1..Len(others) |->
            [book       |-> validBooks[others[k]],
             similarity |-> cosineSimilarity(combinedVectors[targetIndex],
                                             combinedVectors[others[k]])]]

\* Step 9: similarities.sort((a, b) => b.similarity - a.similarity)
sortBySimilarity(similarities) ==
    LET items == similarities \o <<>>
        n     == Len(items)
        order == StableSortOrder(n,
                     [i \in 1..n |-> [j \in 1..n |->
                         BySimilarityDesc(items[i], items[j])] \o <<>>] \o <<>>)
    IN  [p \in 1..n |-> items[order[p]]]

\* getRecommendations(targetBook, allBooks, topN): the returned list and the
\* console lines written
getRecommendations(targetBook, books, topN) ==
    LET validBooks  == validBooksOf(books)
        warnings    == SkipWarnings(books)
        targetIndex == FirstIndex([i \in 1..Len(validBooks) |->
                                      validBooks[i].id = targetBook.id])
    IN  IF Len(validBooks) = 0
        THEN [ret |-> <<>>,
              log |-> warnings \o <<[level |-> "error", what |-> "no valid books",
                                     id |-> 0]>>]
        ELSE IF targetIndex = 0
        THEN [ret |-> <<>>,
              log |-> warnings \o <<Diag("error", "target not found", targetBook)>>]
        ELSE [ret |-> SliceTo(sortBySimilarity(similaritiesOf(validBooks, targetIndex)),
                              topN),
              log |-> warnings]

\* the title search passing over the books that have no genre
findByTitleWithGenre(title, books) ==
    FirstIndex([i \in 1..Len(books) |->
                   /\ HasGenre(books[i])
                   /\ includes(toLowerCase(books[i].title), toLowerCase(title))])

\* allBooks.find(book => book.title.toLowerCase().includes(title.toLowerCase()))
findByTitle(title, books) ==
    FirstIndex([i \in 1..Len(books) |->
                   includes(toLowerCase(books[i].title), toLowerCase(title))])

\* the title search falling back to the first book when nothing matches
getRecommendationsByTitleFallback(title, books, topN) ==
    LET found == findByTitle(title, books)
    IN  IF books = <<>>
        THEN [ret |-> <<>>,
              log |-> <<[level |-> "warn", what |-> "no title match", id |-> 0]>>]
        ELSE getRecommendations(books[Max(found, 1)], books, topN)

\* the title search comparing without toLowerCase
getRecommendationsByTitleCaseSensitive(title, books, topN) ==
    LET found == FirstIndex([i \in 1..Len(books) |-> includes(books[i].title, title)])
    IN  IF found = 0
        THEN [ret |-> <<>>,
              log |-> <<[level |-> "warn", what |-> "no title match", id |-> 0]>>]
        ELSE getRecommendations(books[found], books, topN)

\* getRecommendationsByTitle(title, allBooks, topN)
getRecommendationsByTitle(title, books, topN) ==
    LET found == findByTitle(title, books)
    IN  IF found = 0
        THEN [ret |-> <<>>,
              log |-> <<[level |-> "warn", what |-> "no title match", id |-> 0]>>]
        ELSE getRecommendations(books[found], books, topN)

-----------------------------------------------------------------------------
(* Personalization Scorer *)

\* the number num / den as an exact fraction in lowest terms; a division by
\* zero gives what it gives in JavaScript: Infinity (1/0), -Infinity (-1/0)
\* or NaN (0/0)
Rat(num, den) ==
    IF den = 0 THEN [num |-> Sign(num), den |-> 0]
    ELSE LET g == Gcd(IF num < 0 THEN -num ELSE num, den)
         IN  [num |-> num \div g, den |-> den \div g]

\* the sign of x - y for two fractions, 0 when x - y is NaN
RatCmp(x, y) ==
    IF x.den = 0 /\ y.den = 0
    THEN (IF x.num = 0 \/ y.num = 0 \/ x.num = y.num THEN 0 ELSE x.num)
    ELSE IF x.den = 0 THEN x.num
    ELSE IF y.den = 0 THEN -y.num
    ELSE IF x.num >= 0 /\ y.num >= 0 THEN FracCmp(x.num, x.den, y.num, y.den)
    ELSE IF x.num < 0 /\ y.num >= 0 THEN -1
    ELSE IF x.num >= 0 /\ y.num < 0 THEN 1
    ELSE FracCmp(-y.num, y.den, -x.num, x.den)

\* the comparator with its operands exchanged: (a, b) => a.score - b.score
ByScoreAsc(a, b) == RatCmp(a.score, b.score) < 0

\* (a, b) => b.score - a.score
ByScoreDesc(a, b) == RatCmp(b.score, a.score) < 0

\* the normalisation without its upper limit: Math.max(topN, 10)
normalizedTopNNoCap(topN) == Max(topN, 10)

\* Math.min(Math.max(topN, 10), 20)
normalizedTopNOf(topN) == Min(Max(topN, 10), 20)

\* a popularity map kept outside the call: filled from the books table as it
\* is now, not from the allBooks argument
popularityOfLive(books, id) ==
    LET at == {i \in 1..Len(allBooks) : allBooks[i].id = id}
    IN  IF at = {} THEN 0
        ELSE LET last == CHOOSE i \in at : \A j \in at : j <= i
             IN  IF allBooks[last].view_count = None THEN 0
                 ELSE allBooks[last].view_count[1]

\* bookPopularity.get(id) || 0, the map filled by allBooks.forEach (a later
\* book with the same id overwrites an earlier one)
popularityOf(books, id) ==
    LET at == {i \in 1..Len(books) : books[i].id = id}
    IN  IF at = {} THEN 0
        ELSE LET last == CHOOSE i \in at : \A j \in at : j <= i
             IN  IF books[last].view_count = None THEN 0
                 ELSE books[last].view_count[1]

\* Math.max(...bookPopularity.values(), 1)
maxPopularityOf(books) ==
    LET values == {popularityOf(books, books[i].id) : i \in 1..Len(books)} \cup {1}
    IN  CHOOSE m \in values : \A v \in values : v <= m

\* the total of the profile without its floor at 1
normalizedUserViewsOfNoFloor(userHistoryGenres) ==
    SumFun(userHistoryGenres, DOMAIN userHistoryGenres)

\* Math.max(the sum of the profile's values, 1)
normalizedUserViewsOf(userHistoryGenres) ==
    Max(SumFun(userHistoryGenres, DOMAIN userHistoryGenres), 1)

\* genreMatchWeight counting the labels found in the profile instead of
\* adding their weights
genreMatchWeightOfCount(book, userHistoryGenres) ==
    IF Falsy(book.genre_name) THEN 0
    ELSE LET bookGenres == bookGenresOf(book)
         IN  Cardinality({i \in 1..Len(bookGenres) :
                             bookGenres[i] \in DOMAIN userHistoryGenres})

\* genreMatchWeight: the profile weights of the book's labels, summed
genreMatchWeightOf(book, userHistoryGenres) ==
    IF Falsy(book.genre_name) THEN 0
    ELSE LET bookGenres == bookGenresOf(book)
         IN  SumSeq([i \in 1..Len(bookGenres) |->
                        IF bookGenres[i] \in DOMAIN userHistoryGenres
                        THEN userHistoryGenres[bookGenres[i]] ELSE 0])

\* days in the year over which the recency bonus decays
DecayDays == 365

\* Date.now(): the scorer reads the system clock
DateNow == now

\* the recency bonus without its floor at 0
recencyOfNoFloor(book) ==
    IF book.created_at = None THEN 0
    ELSE DecayDays - (DateNow - book.created_at[1])

\* Math.max(0, 1 - daysSinceCreated / 365) in 365ths; created_at is the day
\* the book was created and daysSinceCreated = Date.now() - created_at
recencyOf(book) ==
    IF book.created_at = None THEN 0
    ELSE Max(0, DecayDays - (DateNow - book.created_at[1]))

\* the score with the weights of genre match and popularity exchanged
scoreOfWeightsExchanged(book, userHistoryGenres, books) ==
    LET nuv    == normalizedUserViewsOf(userHistoryGenres)
        maxPop == maxPopularityOf(books)
    IN  Rat(3 * genreMatchWeightOf(book, userHistoryGenres) * maxPop * DecayDays
              + 4 * popularityOf(books, book.id) * nuv * DecayDays
              + 3 * recencyOf(book) * nuv * maxPop,
            10 * nuv * maxPop * DecayDays)

\* score = 0.4 * genre match + 0.3 * popularity + 0.3 * recency
scoreOf(book, userHistoryGenres, books) ==
    LET nuv    == normalizedUserViewsOf(userHistoryGenres)
        maxPop == maxPopularityOf(books)
    IN  Rat(4 * genreMatchWeightOf(book, userHistoryGenres) * maxPop * DecayDays
              + 3 * popularityOf(books, book.id) * nuv * DecayDays
              + 3 * recencyOf(book) * nuv * maxPop,
            10 * nuv * maxPop * DecayDays)

\* scoredBooks.sort((a, b) => b.score - a.score)
sortByScore(scoredBooks) ==
    LET items == scoredBooks \o <<>>
        n     == Len(items)
        order == StableSortOrder(n,
                     [i \in 1..n |-> [j \in 1..n |->
                         ByScoreDesc(items[i], items[j])] \o <<>>] \o <<>>)
    IN  [p \in 1..n |-> items[order[p]]]

getPersonalizedRecommendations(userHistoryGenres, candidateBooks, books, topN) ==
    IF Len(candidateBooks) = 0 THEN <<>>
    ELSE LET scoredBooks == [i \in 1..Len(candidateBooks) |->
                                [book  |-> candidateBooks[i],
                                 score |-> scoreOf(candidateBooks[i],
                                                   userHistoryGenres, books)]]
             top == SliceTo(sortByScore(scoredBooks), normalizedTopNOf(topN))
         IN  [i \in 1..Len(top) |->
                 [book |-> top[i].book, similarity |-> top[i].score]]

-----------------------------------------------------------------------------
(* Inputs *)

Book(id, title, genre_name, synopsis, view_count, created_at) ==
    [id |-> id, title |-> title, genre_name |-> genre_name,
     synopsis |-> synopsis, view_count |-> view_count, created_at |-> created_at]

\* the books of the similarity catalog, without their ids: titles that share
\* terms and differ in case, one or several genre labels with stray blanks
\* and capitals, a missing and an empty genre, optional synopses
SimilarityShapes ==
    { Book(0, <<"a">>,           Some(<<"f">>),                     None,           None, None),
      Book(0, <<"A", " ", "b">>, Some(<<"F", " ", ",", " ", "s">>), Some(<<"a">>),  None, None),
      Book(0, <<"b">>,           Some(<<"s">>),                     Some(<<"b", " ", "a">>), None, None),
      Book(0, <<"a">>,           None,                              Some(<<"a">>),  None, None),
      Book(0, <<"B">>,           Some(<<>>),                        None,           None, None) }

\* the day the calls are made on
Today == 1000

\* the books of the personalisation catalog, without their ids: created
\* today and 400 days ago, or without a creation time
ScoreShapes ==
    { Book(0, <<"a">>, Some(<<"f">>),                Some(<<"a">>), Some(5), Some(Today)),
      Book(0, <<"b">>, Some(<<"F", ",", " ", "s">>), None,          Some(2), Some(Today - 400)),
      Book(0, <<"b">>, None,                         None,          None,    None) }

WithId(shape, id) == [shape EXCEPT !.id = id]

\* catalogs of n books over the shapes: ids are unique (books.id is the
\* primary key) and run up or down the list
CatalogsOfLen(shapes, n) ==
    {[i \in 1..n |-> WithId(f[i], i)] : f \in [1..n -> shapes]}
    \cup {[i \in 1..n |-> WithId(f[i], n + 1 - i)] : f \in [1..n -> shapes]}

Catalogs(shapes, maxLen) == UNION {CatalogsOfLen(shapes, n) : n \in 0..maxLen}

\* title queries: a term of several titles, a capital, a phrase, no match
Queries == { <<"a">>, <<"B">>, <<"a", " ", "b">>, <<"f">> }

\* user genre profiles (label -> summed views): empty, of total weight 0,
\* one label, two labels
Profiles ==
    { [g \in {} |-> 0],
      [g \in {<<"f">>} |-> 0],
      [g \in {<<"f">>} |-> 10],
      [g \in {<<"f">>, <<"s">>} |-> IF g = <<"f">> THEN 3 ELSE 1] }

\* candidate pools repeat one of these patterns of shapes
PoolPatterns ==
    LET shape(genre, age) == Book(0, <<"a">>, genre, None, None, age)
        fantasy == shape(Some(<<"f">>), Some(Today))
        sains   == shape(Some(<<"s">>), Some(Today))
        both    == shape(Some(<<"F", ",", " ", "s">>), Some(Today - 400))
        old     == shape(Some(<<"f">>), Some(Today - 100))
        bare    == shape(None, None)
    IN  { <<fantasy>>, <<sains, fantasy>>, <<bare, old, fantasy>>,
          <<both, sains, old, bare, fantasy>> }

\* the candidate pool of k books with ids 1..k that repeats the pattern
PoolOf(k, pattern) ==
    [i \in 1..k |-> WithId(pattern[((i - 1) % Len(pattern)) + 1], i)]

DesiredCounts == {-1, 15, 25}

NoCall ==
    [op |-> "none", target |-> 0, query |-> <<>>, topN |-> 0,
     profile |-> <<>>, pool |-> <<>>, genres |-> <<>>]

\* the users table is not part of the run
NoUsers == [rows |-> {}, nextId |-> 1]

\* no page is open in the browser
NoClient == [page |-> "none"]

\* no objects are part of the run
NoHeap ==
    [items |-> <<>>, args |-> 0, corpus |-> <<>>, pool |-> <<>>, profile |-> <<>>,
     out |-> <<>>]

\* no HTTP request is being served
NoRequest ==
    [stage |-> "none", app |-> "", method |-> "", path |-> <<>>, token |-> None,
     chain |-> <<>>, ran |-> <<>>, user |-> None, userId |-> None,
     queries |-> <<>>, rows |-> {}, engine |-> <<>>, status |-> 0, body |-> "",
     recommendations |-> <<>>]

-----------------------------------------------------------------------------
(* The engine as a state machine: a catalog snapshot and the calls made on it *)

\* a caller invokes getRecommendations(targetBook, allBooks, topN); of
\* targetBook the function reads the id (and the title, for its log line)
RecommendSimilar(targetId, topN) ==
    LET r == getRecommendations([id |-> targetId], allBooks, topN)
    IN  /\ call = NoCall
        /\ call' = [NoCall EXCEPT !.op = "recommendSimilar",
                                  !.target = targetId, !.topN = topN]
        /\ result' = r.ret
        /\ log' = r.log
        /\ UNCHANGED <<allBooks, now, requests, web, heap>>

\* a caller invokes getRecommendationsByTitle(title, allBooks, topN)
RecommendByLabel(queryText, topN) ==
    LET r == getRecommendationsByTitle(queryText, allBooks, topN)
    IN  /\ call = NoCall
        /\ call' = [NoCall EXCEPT !.op = "recommendByLabel",
                                  !.query = queryText, !.topN = topN]
        /\ result' = r.ret
        /\ log' = r.log
        /\ UNCHANGED <<allBooks, now, requests, web, heap>>

\* a caller invokes getPersonalizedRecommendations(userHistoryGenres,
\* candidateBooks, allBooks, topN)
ScoreForUser(userGenreProfile, candidatePool, desiredCount) ==
    /\ call = NoCall
    /\ call' = [NoCall EXCEPT !.op = "scoreForUser", !.profile = userGenreProfile,
                              !.pool = candidatePool, !.topN = desiredCount]
    /\ result' = getPersonalizedRecommendations(userGenreProfile, candidatePool,
                                                allBooks, desiredCount)
    /\ log' = <<>>
    /\ UNCHANGED <<allBooks, now, requests, web, heap>>

\* the call has returned to its caller: the engine keeps nothing of it
Respond ==
    /\ call # NoCall
    /\ call' = NoCall
    /\ result' = <<>>
    /\ log' = <<>>
    /\ UNCHANGED <<allBooks, now, requests, web, heap>>

Init ==
    /\ allBooks \in Catalogs(SimilarityShapes, MaxBooks)
    /\ call = NoCall
    /\ result = <<>>
    /\ log = <<>>
    /\ now = Today
    /\ heap = NoHeap
    /\ requests = <<>>
    /\ http = NoRequest
    /\ users = NoUsers
    /\ client = NoClient
    /\ bookHistory = {}

Next ==
    \/ \E targetId \in 1..(MaxBooks + 1), topN \in -1..MaxTopN :
           RecommendSimilar(targetId, topN)
    \/ \E queryText \in Queries, topN \in -1..MaxTopN :
           RecommendByLabel(queryText, topN)
    \/ Respond

Spec == Init /\ [][Next]_vars

InitScore ==
    /\ allBooks \in Catalogs(ScoreShapes, MaxBooks - 1)
    /\ call = NoCall
    /\ result = <<>>
    /\ log = <<>>
    /\ now = Today
    /\ heap = NoHeap
    /\ requests = <<>>
    /\ http = NoRequest
    /\ users = NoUsers
    /\ client = NoClient
    /\ bookHistory = {}

NextScore ==
    \/ Respond
    \/ /\ call = NoCall
       /\ \E userGenreProfile \in Profiles, k \in 0..MaxPool, pattern \in PoolPatterns,
             desiredCount \in DesiredCounts :
              ScoreForUser(userGenreProfile, PoolOf(k, pattern), desiredCount)

SpecScore == InitScore /\ [][NextScore]_vars

-----------------------------------------------------------------------------
(* The Categorical Encoder on its own: the vocabulary and genre vectors of  *)
(* a corpus, and the genre vector of one book over a given vocabulary       *)

\* vocabularies handed to createGenreVector: the one of the corpus, one with
\* a capital and a label no book has, the empty one
Vocabularies(books) ==
    { extractAllGenres(books), << <<"F">>, <<"s">>, <<"x">> >>, <<>> }

\* the caller filters the corpus and runs steps 1 and 2 of getRecommendations
EncodeCorpus ==
    /\ call = NoCall
    /\ call' = [NoCall EXCEPT !.op = "encodeCorpus"]
    /\ result' = genreVectorsOf(validBooksOf(allBooks))
    /\ log' = SkipWarnings(allBooks)
    /\ UNCHANGED <<allBooks, now, requests, web, heap>>

\* a caller invokes createGenreVector(book, allGenres) on the book at
\* position i of the corpus
CreateGenreVector(i, allGenres) ==
    /\ call = NoCall
    /\ i \in 1..Len(allBooks)
    /\ call' = [NoCall EXCEPT !.op = "createGenreVector", !.target = i,
                              !.genres = allGenres]
    /\ result' = createGenreVector(allBooks[i], allGenres)
    /\ log' = IF Falsy(allBooks[i].genre_name)
              THEN <<Diag("warn", "no genre_name", allBooks[i])>> ELSE <<>>
    /\ UNCHANGED <<allBooks, now, requests, web, heap>>

InitEncode ==
    /\ allBooks \in Catalogs(SimilarityShapes, MaxBooks)
    /\ call = NoCall
    /\ result = <<>>
    /\ log = <<>>
    /\ now = Today
    /\ heap = NoHeap
    /\ requests = <<>>
    /\ http = NoRequest
    /\ users = NoUsers
    /\ client = NoClient
    /\ bookHistory = {}

NextEncode ==
    \/ EncodeCorpus
    \/ \E i \in 1..MaxBooks, allGenres \in Vocabularies(allBooks) :
           CreateGenreVector(i, allGenres)
    \/ Respond

SpecEncode == InitEncode /\ [][NextEncode]_vars

-----------------------------------------------------------------------------
(* The scenario of two fantasy books and one sains book, over every choice  *)
(* of titles and synopses                                                    *)

ScenarioTitles == { <<"a">>, <<"b">>, <<"a", " ", "b">>, <<"c">> }

ScenarioSynopses == { None, Some(<<"a">>), Some(<<"b">>), Some(<<"a", " ", "b">>) }

\* corpus = [item1(fantasy), item2(fantasy), item3(sains)], ids up or down
ScenarioCorpora ==
    LET genres == << <<"f">>, <<"f">>, <<"s">> >>
    IN  {[i \in 1..3 |->
            Book(IF up THEN i ELSE 4 - i, t[i], Some(genres[i]), y[i], None, None)] :
            t \in [1..3 -> ScenarioTitles], y \in [1..3 -> ScenarioSynopses],
            up \in BOOLEAN}

InitScenario ==
    /\ allBooks \in ScenarioCorpora
    /\ call = NoCall
    /\ result = <<>>
    /\ log = <<>>
    /\ now = Today
    /\ heap = NoHeap
    /\ requests = <<>>
    /\ http = NoRequest
    /\ users = NoUsers
    /\ client = NoClient
    /\ bookHistory = {}

\* recommendSimilar(item1.id, corpus, 2)
NextScenario ==
    \/ RecommendSimilar(allBooks[1].id, 2)
    \/ Respond

SpecScenario == InitScenario /\ [][NextScenario]_vars

-----------------------------------------------------------------------------
(* Concurrent requests: each request reads its own snapshot of the books     *)
(* table, invokes the engine on it and replies, while the table changes and *)
(* the clock advances.  The engine call itself is synchronous: it is one    *)
(* step, and requests interleave at their awaits.                            *)

MaxTicks == 2

\* the requests in flight
Requests == {"r1", "r2"}

\* the states of the books table while the requests run
Tables ==
    LET fantasy == Book(0, <<"a">>, Some(<<"f">>), None, Some(5), Some(Today))
        both    == Book(0, <<"a", " ", "b">>, Some(<<"F", ",", " ", "s">>), None,
                        Some(2), Some(Today - 400))
        sains   == Book(0, <<"b">>, Some(<<"s">>), None, None, Some(Today - 364))
        other   == Book(0, <<"b">>, Some(<<"f">>), None, Some(1), Some(Today - 10))
    IN  { <<WithId(fantasy, 1), WithId(both, 2), WithId(sains, 3)>>,
          <<WithId(fantasy, 1), WithId(other, 2)>>,
          <<WithId(both, 2), WithId(fantasy, 1)>> }

\* the engine calls a request may make; a scoring call passes the snapshot
\* both as candidate pool and as full corpus
ParCalls ==
    {[NoCall EXCEPT !.op = "recommendSimilar", !.target = t, !.topN = MaxTopN] :
        t \in 1..MaxBooks}
    \cup {[NoCall EXCEPT !.op = "recommendByLabel", !.query = <<"a">>,
                         !.topN = MaxTopN]}
    \cup {[NoCall EXCEPT !.op = "scoreForUser", !.profile = p, !.topN = 15] :
            p \in {q \in Profiles : DOMAIN q # {}}}

Idle ==
    [stage |-> "idle", call |-> NoCall, snapshot |-> <<>>, at |-> 0, result |-> <<>>]

\* the entry point named by the call c, applied to the corpus books
Invoke(c, books) ==
    CASE c.op = "recommendSimilar" ->
            getRecommendations([id |-> c.target], books, c.topN).ret
      [] c.op = "recommendByLabel" ->
            getRecommendationsByTitle(c.query, books, c.topN).ret
      [] c.op = "scoreForUser" ->
            getPersonalizedRecommendations(c.profile, c.pool, books, c.topN)

\* const [books] = await pool.query(...): the request holds its own rows
Fetch(r, c) ==
    /\ requests[r].stage = "idle"
    /\ requests' = [requests EXCEPT ![r] =
           [Idle EXCEPT !.stage = "fetched",
                        !.call = IF c.op = "scoreForUser"
                                 THEN [c EXCEPT !.pool = allBooks] ELSE c,
                        !.snapshot = allBooks]]
    /\ UNCHANGED <<allBooks, call, result, log, now, web, heap>>

\* the request invokes the engine on its rows
Compute(r) ==
    /\ requests[r].stage = "fetched"
    /\ requests' = [requests EXCEPT ![r] =
           [@ EXCEPT !.stage = "done",
                     !.at = now,
                     !.result = Invoke(requests[r].call, requests[r].snapshot)]]
    /\ UNCHANGED <<allBooks, call, result, log, now, web, heap>>

\* return c.json({ ..., recommendations })
Reply(r) ==
    /\ requests[r].stage = "done"
    /\ requests' = [requests EXCEPT ![r] = Idle]
    /\ UNCHANGED <<allBooks, call, result, log, now, web, heap>>

\* a librarian edits the catalog
CatalogChange ==
    /\ allBooks' \in Tables \ {allBooks}
    /\ UNCHANGED <<call, result, log, now, requests, web, heap>>

\* a day passes
Tick ==
    /\ now < Today + MaxTicks
    /\ now' = now + 1
    /\ UNCHANGED <<allBooks, call, result, log, requests, web, heap>>

InitPar ==
    /\ allBooks \in Tables
    /\ call = NoCall
    /\ result = <<>>
    /\ log = <<>>
    /\ now = Today
    /\ heap = NoHeap
    /\ requests = [r \in Requests |-> Idle]
    /\ http = NoRequest
    /\ users = NoUsers
    /\ client = NoClient
    /\ bookHistory = {}

NextPar ==
    \/ \E r \in Requests, c \in ParCalls : Fetch(r, c)
    \/ \E r \in Requests : Compute(r)
    \/ \E r \in Requests : Reply(r)
    \/ CatalogChange
    \/ Tick

SpecPar == InitPar /\ [][NextPar]_vars

-----------------------------------------------------------------------------
(* The HTTP routes of the users and recommend applications.  A request is   *)
(* matched against the routes in the order they were registered; the        *)
(* handlers of every matching route form one chain, run from its head: a    *)
(* middleware either responds or passes on to the next handler, a route     *)
(* handler responds.  The middlewares (middlewares/auth) follow their use   *)
(* in the routes: authMiddleware responds 401 without a valid token and    *)
(* otherwise stores the token's payload as the user, pustakawanOnly         *)
(* responds 403 to any other role.  The handlers of the recommend           *)
(* application that score for a user are modelled query by query; of the    *)
(* other handlers only the fact that they respond is kept.                  *)

\* the words that occur in paths
wHistory == <<"h", "i", "s", "t", "o", "r", "y">>

wStudent == <<"s", "t", "u", "d", "e", "n", "t">>

wList == <<"l", "i", "s", "t">>

wStudents == <<"s", "t", "u", "d", "e", "n", "t", "s">>

wMe == <<"m", "e">>

wUser == <<"u", "s", "e", "r">>

\* a literal segment of a route pattern
Lit(word) == [kind |-> "literal", word |-> word, name |-> ""]

\* a ':name' segment of a route pattern
Param(name) == [kind |-> "param", word |-> <<>>, name |-> name]

Route(method, pattern, handlers) ==
    [method |-> method, pattern |-> pattern, handlers |-> handlers]

\* the routes with the parameterised GET route registered ahead of the
\* literal ones
routesOfParamFirst(app) ==
    IF app = "users"
    THEN << Route("GET", <<Param("id")>>,
                  <<"authMiddleware", "pustakawanOnly", "users.byId">>),
            Route("GET", <<Lit(wHistory)>>, <<"authMiddleware", "users.history">>) >>
    ELSE << Route("GET", <<Param("id")>>, <<"recommend.byId">>),
            Route("GET", <<Lit(wMe)>>, <<"authMiddleware", "recommend.me">>),
            Route("GET", <<Lit(wUser), Param("userId")>>,
                  <<"authMiddleware", "recommend.user">>) >>

\* the routes of an application in the order of their registration
routesOf(app) ==
    IF app = "users"
    THEN << Route("GET", <<Lit(wHistory)>>, <<"authMiddleware", "users.history">>),
            Route("GET", <<Lit(wHistory), Lit(wStudent), Param("studentId")>>,
                  <<"authMiddleware", "pustakawanOnly", "users.studentHistory">>),
            Route("GET", <<Lit(wList), Lit(wStudents)>>,
                  <<"authMiddleware", "pustakawanOnly", "users.listStudents">>),
            Route("GET", <<>>, <<"authMiddleware", "pustakawanOnly", "users.list">>),
            Route("GET", <<Param("id")>>,
                  <<"authMiddleware", "pustakawanOnly", "users.byId">>),
            Route("POST", <<>>, <<"authMiddleware", "pustakawanOnly", "users.create">>),
            Route("PUT", <<Param("id")>>,
                  <<"authMiddleware", "pustakawanOnly", "users.update">>),
            Route("DELETE", <<Param("id")>>,
                  <<"authMiddleware", "pustakawanOnly", "users.delete">>) >>
    ELSE << Route("GET", <<>>, <<"recommend.byTitle">>),
            Route("GET", <<Lit(wMe)>>, <<"authMiddleware", "recommend.me">>),
            Route("GET", <<Lit(wUser), Param("userId")>>,
                  <<"authMiddleware", "recommend.user">>),
            Route("GET", <<Param("id")>>, <<"recommend.byId">>) >>

\* a pattern matches a path of as many segments whose literal segments agree
Matches(pattern, path) ==
    /\ Len(pattern) = Len(path)
    /\ \A i \in 1..Len(pattern) :
          pattern[i].kind = "literal" => pattern[i].word = path[i]

\* c.req.param(): the path segments bound to the names of the pattern
paramsOf(pattern, path) ==
    LET at == {i \in 1..Len(pattern) : pattern[i].kind = "param"}
    IN  [name \in {pattern[i].name : i \in at} |->
            path[CHOOSE i \in at : pattern[i].name = name]]

\* the handlers of the routes from the k-th on that match the request, each
\* with the parameters of its own route
RECURSIVE chainFrom(_, _, _, _)
chainFrom(routes, k, method, path) ==
    IF k > Len(routes) THEN <<>>
    ELSE (IF routes[k].method = method /\ Matches(routes[k].pattern, path)
          THEN [i \in 1..Len(routes[k].handlers) |->
                   [name  |-> routes[k].handlers[i],
                    param |-> paramsOf(routes[k].pattern, path)]]
          ELSE <<>>)
         \o chainFrom(routes, k + 1, method, path)

Digits == <<"0", "1", "2", "3", "4", "5", "6", "7", "8", "9">>

IsDigit(c) == \E d \in 1..10 : Digits[d] = c

DigitValue(c) == (CHOOSE d \in 1..10 : Digits[d] = c) - 1

RECURSIVE leadingDigits(_)
leadingDigits(s) ==
    IF s = <<>> \/ ~IsDigit(Head(s)) THEN <<>>
    ELSE <<Head(s)>> \o leadingDigits(Tail(s))

RECURSIVE decimalValue(_)
decimalValue(ds) ==
    IF ds = <<>> THEN 0
    ELSE 10 * decimalValue(SubSeq(ds, 1, Len(ds) - 1)) + DigitValue(ds[Len(ds)])

\* parseInt(s): leading blanks and a sign are skipped, the digits up to the
\* first other character are read; None stands for NaN
parseInt(s) ==
    LET t      == trimStart(s)
        signed == t # <<>> /\ Head(t) \in {"-", "+"}
        ds     == leadingDigits(IF signed THEN Tail(t) ELSE t)
    IN  IF ds = <<>> THEN None
        ELSE Some(IF signed /\ Head(t) = "-" THEN -decimalValue(ds)
                  ELSE decimalValue(ds))

\* the test of GET /recommend/user/:userId letting everybody through
ForbiddenNever(user, userId) == FALSE

\* user.role !== 'pustakawan' && user.id !== userId
Forbidden(user, userId) ==
    user.role # "pustakawan" /\ Some(user.id) # userId

\* SELECT bh.book_id, bh.views, ..., g.name as genre_name, b.created_at FROM
\* book_history bh INNER JOIN books b ... WHERE bh.user_id = ?
historyRowsOf(userId) ==
    {[book_id    |-> x[1].book_id,
      views      |-> x[1].views,
      genre_name |-> allBooks[x[2]].genre_name[1],
      created_at |-> allBooks[x[2]].created_at] :
        x \in {y \in bookHistory \X (1..Len(allBooks)) :
                  /\ Some(y[1].user_id) = userId
                  /\ allBooks[y[2]].id = y[1].book_id}}

\* userGenrePrefs: the views of the history rows, added up per lower-cased
\* genre name
userGenrePrefsOf(userHistory) ==
    [genreName \in {toLowerCase(entry.genre_name) : entry \in userHistory} |->
        SumFun([entry \in userHistory |->
                   IF toLowerCase(entry.genre_name) = genreName
                   THEN entry.views ELSE 0], userHistory)]

\* COUNT(bh.id) as view_count ... LEFT JOIN book_history bh ON b.id =
\* bh.book_id GROUP BY b.id: every book with the number of its history rows
withViewCount(books) ==
    [i \in 1..Len(books) |->
        [books[i] EXCEPT !.view_count =
            Some(Cardinality({h \in bookHistory : h.book_id = books[i].id}))]]

\* the orders in which a query may return n rows under an ORDER BY:
\* before[i][j] is "row i must come ahead of row j"; rows the ORDER BY does
\* not tell apart come in any order
OrderingsBy(n, before) ==
    IF \A i, j \in 1..n : i # j => (before[i][j] \/ before[j][i])
    THEN {StableSortOrder(n, before)}
    ELSE {p \in [1..n -> 1..n] :
             /\ \A i, j \in 1..n : i # j => p[i] # p[j]
             /\ \A i, j \in 1..n : i < j => ~before[p[j]][p[i]]}

\* ORDER BY b.created_at DESC
NewerFirst(books) ==
    [i \in 1..Len(books) |-> [j \in 1..Len(books) |->
        books[i].created_at[1] > books[j].created_at[1]]]

\* ORDER BY view_count DESC, b.created_at DESC
MostViewedFirst(books) ==
    [i \in 1..Len(books) |-> [j \in 1..Len(books) |->
        \/ books[i].view_count[1] > books[j].view_count[1]
        \/ /\ books[i].view_count[1] = books[j].view_count[1]
           /\ books[i].created_at[1] > books[j].created_at[1]]]

\* LIMIT 20 of the popularity query
PopularLimit == 20

\* the popularity query without its LIMIT
popularBooksOfUnlimited(rows) ==
    [i \in 1..Len(rows) |->
        [book |-> rows[i], similarity |-> Rat(rows[i].view_count[1], 100)]]

\* the rows of the popularity query ... LIMIT 20, each with
\* similarity: (book.view_count || 0) / 100
popularBooksOf(rows) ==
    LET top == SliceTo(rows, PopularLimit)
    IN  [i \in 1..Len(top) |->
            [book |-> top[i], similarity |-> Rat(top[i].view_count[1], 100)]]

\* the candidate pool keeping the books the user has viewed
candidateBooksOfAll(userHistory, booksWithPopularity) == booksWithPopularity

\* candidateBooks: the books whose id is not in viewedBookIds
candidateBooksOf(userHistory, booksWithPopularity) ==
    LET viewedBookIds == {entry.book_id : entry \in userHistory}
    IN  SelectSeq(booksWithPopularity, LAMBDA book : book.id \notin viewedBookIds)

\* the arguments of the call getPersonalizedRecommendations(userGenrePrefs,
\* candidateBooks, booksWithPopularity, 15)
scorerCallOf(userHistory, booksWithPopularity) ==
    [NoCall EXCEPT !.op = "scoreForUser",
                   !.profile = userGenrePrefsOf(userHistory),
                   !.pool = candidateBooksOf(userHistory, booksWithPopularity),
                   !.topN = 15]

\* the recommendations of the personalised branch
personalizedOf(userHistory, booksWithPopularity) ==
    LET c == scorerCallOf(userHistory, booksWithPopularity)
    IN  getPersonalizedRecommendations(c.profile, c.pool, booksWithPopularity, c.topN)

\* return c.json(..., status): the request is answered
Answered(status, body, recommendations) ==
    [http EXCEPT !.stage = "done", !.chain = <<>>, !.status = status,
                 !.body = body, !.recommendations = recommendations]

\* the head of the chain starts to run
Started == [http EXCEPT !.chain = Tail(@), !.ran = Append(@, Head(http.chain).name)]

Running(name) ==
    /\ http.stage = "running"
    /\ http.chain # <<>>
    /\ Head(http.chain).name = name

\* a request arrives and is matched against the routes of its application
Receive(app, method, path, token) ==
    /\ http.stage = "none"
    /\ http' = [NoRequest EXCEPT !.stage = "running", !.app = app,
                                 !.method = method, !.path = path, !.token = token,
                                 !.chain = chainFrom(routesOf(app), 1, method, path)]
    /\ UNCHANGED <<allBooks, call, result, log, now, requests, bookHistory, users, client, heap>>

\* no route matches
NotFound ==
    /\ http.stage = "running"
    /\ http.chain = <<>>
    /\ http' = Answered(404, "Not Found", <<>>)
    /\ UNCHANGED <<allBooks, call, result, log, now, requests, bookHistory, users, client, heap>>

AuthMiddleware ==
    /\ Running("authMiddleware")
    /\ http' = IF http.token = None
               THEN [Answered(401, "Unauthorized", <<>>) EXCEPT
                        !.ran = Append(@, "authMiddleware")]
               ELSE [Started EXCEPT !.user = http.token]
    /\ UNCHANGED <<allBooks, call, result, log, now, requests, bookHistory, users, client, heap>>

PustakawanOnly ==
    /\ Running("pustakawanOnly")
    /\ http' = IF http.user[1].role # "pustakawan"
               THEN [Answered(403, "Forbidden", <<>>) EXCEPT
                        !.ran = Append(@, "pustakawanOnly")]
               ELSE Started
    /\ UNCHANGED <<allBooks, call, result, log, now, requests, bookHistory, users, client, heap>>

\* a handler of which only the response is kept
PlainHandlers ==
    {"users.history", "users.studentHistory", "users.listStudents", "users.list",
     "users.byId", "users.create", "users.update", "users.delete",
     "recommend.byTitle", "recommend.byId"}

HandlePlain ==
    /\ \E name \in PlainHandlers : Running(name)
    /\ http' = [Started EXCEPT !.stage = "done", !.chain = <<>>, !.status = 200,
                               !.body = Head(http.chain).name]
    /\ UNCHANGED <<allBooks, call, result, log, now, requests, bookHistory, users, client, heap>>

\* GET /recommend/me up to its first await: the history of the user is queried
RecommendMe ==
    /\ Running("recommend.me")
    /\ http' = [Started EXCEPT !.stage = "history",
                               !.userId = Some(http.user[1].id),
                               !.queries = Append(@, [table  |-> "book_history",
                                                      userId |-> Some(http.user[1].id)])]
    /\ UNCHANGED <<allBooks, call, result, log, now, requests, bookHistory, users, client, heap>>

\* GET /recommend/user/:userId up to its first await: 403, or the history
\* of userId is queried
RecommendUser ==
    /\ Running("recommend.user")
    /\ LET userId == parseInt(Head(http.chain).param["userId"])
       IN  http' = IF Forbidden(http.user[1], userId)
                   THEN [Answered(403, "Forbidden - Can only view own recommendations",
                                  <<>>) EXCEPT
                            !.ran = Append(@, "recommend.user"), !.userId = userId]
                   ELSE [Started EXCEPT !.stage = "history",
                                        !.userId = userId,
                                        !.queries = Append(@, [table  |-> "book_history",
                                                               userId |-> userId])]
    /\ UNCHANGED <<allBooks, call, result, log, now, requests, bookHistory, users, client, heap>>

\* the test that sends the handler to the popularity branch, never true
HistoryIsEmptyNever(userHistory) == FALSE

\* userHistory.length === 0
HistoryIsEmpty(userHistory) == userHistory = {}

\* the message of the personalised response of the handler that ran
personalizedMessageOf(handler) ==
    IF handler = "recommend.me"
    THEN "Personalized recommendations based on your history"
    ELSE "Personalized recommendations for student"

\* the history rows arrive: without history the popular books are queried,
\* otherwise the profile and viewedBookIds are built from the rows and all
\* books are queried
HistoryFetched ==
    /\ http.stage = "history"
    /\ LET userHistory == historyRowsOf(http.userId)
       IN  http' = [http EXCEPT
                       !.stage = IF HistoryIsEmpty(userHistory) THEN "popular" ELSE "books",
                       !.rows = userHistory,
                       !.queries = Append(@, [table |-> "books", userId |-> None])]
    /\ UNCHANGED <<allBooks, call, result, log, now, requests, bookHistory, users, client, heap>>

\* the rows of the popularity query arrive and the handler responds
PopularFetched ==
    /\ http.stage = "popular"
    /\ LET books == withViewCount(allBooks)
       IN  \E p \in OrderingsBy(Len(books), MostViewedFirst(books)) :
              http' = Answered(200, "No viewing history. Returning popular books.",
                               popularBooksOf([i \in 1..Len(books) |-> books[p[i]]]))
    /\ UNCHANGED <<allBooks, call, result, log, now, requests, bookHistory, users, client, heap>>

\* the rows of all books arrive: the scorer is called on the books not yet
\* viewed and the handler responds
BooksFetched ==
    /\ http.stage = "books"
    /\ LET books == withViewCount(allBooks)
       IN  \E p \in OrderingsBy(Len(books), NewerFirst(books)) :
              LET booksWithPopularity == [i \in 1..Len(books) |-> books[p[i]]]
              IN  http' = [Answered(200, personalizedMessageOf(http.ran[Len(http.ran)]),
                                    personalizedOf(http.rows, booksWithPopularity))
                           EXCEPT !.engine = <<scorerCallOf(http.rows,
                                                            booksWithPopularity)>>]
    /\ UNCHANGED <<allBooks, call, result, log, now, requests, bookHistory, users, client, heap>>

\* the book_history table: one row per user and book
HistoryTables ==
    { {},
      { [user_id |-> 1, book_id |-> 1, views |-> 3],
        [user_id |-> 2, book_id |-> 2, views |-> 1],
        [user_id |-> 2, book_id |-> 1, views |-> 2] } }

\* while the request waits for a query, the user it is about opens a book:
\* the row of that user and book is inserted with one view, or its views
\* go up by one (one such view is recorded in a run)
ViewRecorded(book_id) ==
    /\ http.stage \in {"history", "popular", "books"}
    /\ http.userId # None
    /\ bookHistory \in HistoryTables
    /\ \E i \in 1..Len(allBooks) : allBooks[i].id = book_id
    /\ LET mine == {h \in bookHistory :
                       h.user_id = http.userId[1] /\ h.book_id = book_id}
       IN  IF mine = {}
           THEN bookHistory' = bookHistory \cup
                    {[user_id |-> http.userId[1], book_id |-> book_id, views |-> 1]}
           ELSE bookHistory' = (bookHistory \ mine) \cup
                    {[h EXCEPT !.views = @ + 1] : h \in mine}
    /\ UNCHANGED <<allBooks, call, result, log, now, requests, http, users, client, heap>>

\* the response has been sent
Close ==
    /\ http.stage = "done"
    /\ http' = NoRequest
    /\ UNCHANGED <<allBooks, call, result, log, now, requests, bookHistory, users, client, heap>>

\* the payloads of the tokens presented: none, two pupils, a librarian
Tokens ==
    { None,
      Some([id |-> 1, role |-> "siswa"]),
      Some([id |-> 2, role |-> "siswa"]),
      Some([id |-> 3, role |-> "pustakawan"]) }

\* the paths requested
Paths ==
    { <<>>, <<wHistory>>, <<wMe>>, << <<"1">> >>, << <<"H", "i">> >>,
      <<wHistory, wStudent, <<"1">>>>, <<wList, wStudents>>,
      <<wUser, <<"1">>>>, <<wUser, <<"2">>>>, <<wUser, <<"2", "x">>>>,
      <<wUser, <<"x">>>>, <<wUser, <<"3">>>>, <<wUser>> }

\* the books table of the routes: genre_name comes from the join with
\* genres, view_count is computed by the queries
RouteTables ==
    LET row(id, title, genre, created) ==
            Book(id, title, Some(genre), None, None, Some(created))
    IN  { <<>>,
          << row(1, <<"a">>, <<"F">>, Today - 10), row(2, <<"b">>, <<"s">>, Today),
             row(3, <<"a", " ", "b">>, <<"F">>, Today) >>,
          [i \in 1..(PopularLimit + 1) |->
              row(i, <<"a">>, IF i % 2 = 1 THEN <<"F">> ELSE <<"s">>, Today - i)] }

InitRoute ==
    /\ allBooks \in RouteTables
    /\ bookHistory \in {rows \in HistoryTables :
                            \A h \in rows : \E i \in 1..Len(allBooks) :
                                allBooks[i].id = h.book_id}
    /\ call = NoCall
    /\ result = <<>>
    /\ log = <<>>
    /\ now = Today
    /\ heap = NoHeap
    /\ requests = <<>>
    /\ http = NoRequest
    /\ users = NoUsers
    /\ client = NoClient

NextRoute ==
    \/ \E app \in {"users", "recommend"}, method \in {"GET", "DELETE"},
          path \in Paths, token \in Tokens :
           Receive(app, method, path, token)
    \/ NotFound
    \/ AuthMiddleware
    \/ PustakawanOnly
    \/ HandlePlain
    \/ RecommendMe
    \/ RecommendUser
    \/ HistoryFetched
    \/ PopularFetched
    \/ BooksFetched
    \/ \E book_id \in 1..MaxBooks : ViewRecorded(book_id)
    \/ Close

SpecRoute == InitRoute /\ [][NextRoute]_vars

-----------------------------------------------------------------------------
(* The handlers that write the users table, POST /users and PUT /users/:id, *)
(* run by concurrent requests that have passed authMiddleware and           *)
(* pustakawanOnly.  A handler runs up to its next await in one step; a      *)
(* query is executed by the database in the step that delivers its result.  *)

\* ids the table hands out in a run
MaxUsers == 4

\* usernames compare under the collation of the table, utf8mb4_unicode_ci,
\* which ignores case
SameUsername(a, b) == toLowerCase(a) = toLowerCase(b)

\* SELECT id FROM users WHERE username = ?
idsByUsername(table, username) ==
    {row.id : row \in {x \in table.rows : SameUsername(x.username, username)}}

\* SELECT id FROM users WHERE id = ?
idsById(table, id) == {row.id : row \in {x \in table.rows : x.id = id}}

\* the number the database compares the text of the :id parameter as
idOf(param) == decimalValue(param)

\* !role for a role given as a whole word: undefined and '' are falsy
NoRole(role) == role = None \/ role = Some("")

\* the INSERT into a table whose username column has no UNIQUE key
insertUserNoUnique(table, username, role) ==
    [ok    |-> TRUE,
     table |-> [rows   |-> table.rows \cup
                              {[id |-> table.nextId, username |-> username,
                                role |-> role]},
                nextId |-> table.nextId + 1]]

\* INSERT INTO users (username, password, role) VALUES (?, ?, ?): the UNIQUE
\* key on username rejects a name that a row holds, the id is AUTO_INCREMENT
insertUser(table, username, role) ==
    IF idsByUsername(table, username) # {}
    THEN [ok |-> FALSE, table |-> [table EXCEPT !.nextId = @ + 1]]
    ELSE [ok    |-> TRUE,
          table |-> [rows   |-> table.rows \cup
                                   {[id |-> table.nextId, username |-> username,
                                     role |-> role]},
                     nextId |-> table.nextId + 1]]

\* UPDATE users SET username = ?, role = ? WHERE id = ?, each column only
\* when it was pushed to updates; the UNIQUE key rejects a name another row
\* holds
updateUser(table, id, username, role) ==
    LET matched == {x \in table.rows : x.id = id}
        changed(x) == [x EXCEPT
                          !.username = IF Falsy(username) THEN @ ELSE username[1],
                          !.role     = IF NoRole(role) THEN @ ELSE role[1]]
    IN  IF /\ matched # {}
           /\ ~Falsy(username)
           /\ idsByUsername(table, username[1]) \ {id} # {}
        THEN [ok |-> FALSE, affectedRows |-> 0, table |-> table]
        ELSE [ok |-> TRUE, affectedRows |-> Cardinality(matched),
              table |-> [table EXCEPT
                            !.rows = (@ \ matched) \cup {changed(x) : x \in matched}]]

\* no write request in this slot
NoWrite ==
    [stage |-> "idle", method |-> "", id |-> 0, username |-> None,
     password |-> None, role |-> None, existing |-> {}, wrote |-> FALSE,
     refused |-> FALSE, peers |-> {}, status |-> 0, body |-> "", userId |-> 0]

\* return c.json(body, status)
Responded(req, status, body) ==
    [req EXCEPT !.stage = "done", !.status = status, !.body = body]

\* the requests that are being served
InFlight == {q \in DOMAIN requests : requests[q].stage \notin {"idle", "done"}}

\* POST /users up to the query for the username: the body is read and
\* checked
PostUsers(r, username, password, role) ==
    /\ requests[r].stage = "idle"
    /\ users.nextId <= MaxUsers
    /\ LET req == [NoWrite EXCEPT !.method = "POST", !.username = username,
                                  !.password = password,
                                  !.role = IF role = None THEN Some("siswa") ELSE role,
                                  !.peers = InFlight \ {r}]
       IN  requests' = [requests EXCEPT ![r] =
               IF Falsy(username) \/ Falsy(password)
               THEN Responded(req, 400, "Username and password are required")
               ELSE IF req.role[1] \notin {"siswa", "pustakawan"}
               THEN Responded(req, 400, "Invalid role")
               ELSE [req EXCEPT !.stage = "post.check"]]
    /\ UNCHANGED <<allBooks, call, result, log, now, http, bookHistory, users, client, heap>>

\* the rows that hold the username arrive: 409 if there is one, otherwise
\* the password is hashed
PostChecked(r) ==
    /\ requests[r].stage = "post.check"
    /\ LET existing == idsByUsername(users, requests[r].username[1])
           req      == [requests[r] EXCEPT !.existing = existing]
       IN  requests' = [requests EXCEPT ![r] =
               IF existing # {}
               THEN Responded(req, 409, "Username already exists")
               ELSE [req EXCEPT !.stage = "post.hash"]]
    /\ UNCHANGED <<allBooks, call, result, log, now, http, bookHistory, users, client, heap>>

\* bcrypt.hash resolves: the INSERT is sent
PostHashed(r) ==
    /\ requests[r].stage = "post.hash"
    /\ requests' = [requests EXCEPT ![r].stage = "post.insert"]
    /\ UNCHANGED <<allBooks, call, result, log, now, http, bookHistory, users, client, heap>>

\* the INSERT is executed: 201 with the new id, or the query throws and the
\* catch block answers 500
PostInserted(r) ==
    /\ requests[r].stage = "post.insert"
    /\ LET inserted == insertUser(users, requests[r].username[1], requests[r].role[1])
       IN  /\ users' = inserted.table
           /\ requests' = [requests EXCEPT ![r] =
                  IF inserted.ok
                  THEN [Responded(requests[r], 201, "User created successfully")
                           EXCEPT !.wrote = TRUE, !.userId = users.nextId]
                  ELSE [Responded(requests[r], 500, "Failed to create user")
                           EXCEPT !.refused = TRUE]]
    /\ UNCHANGED <<allBooks, call, result, log, now, http, bookHistory, client, heap>>

\* PUT /users/:id after its checks, from the hashing of the password on:
\* the role is validated and the UPDATE is sent
putValidated(req) ==
    IF ~NoRole(req.role) /\ req.role[1] \notin {"siswa", "pustakawan"}
    THEN Responded(req, 400, "Invalid role")
    ELSE IF Falsy(req.username) /\ Falsy(req.password) /\ NoRole(req.role)
    THEN Responded(req, 400, "No fields to update")
    ELSE [req EXCEPT !.stage = "put.update"]

\* PUT /users/:id after its checks: a password is hashed first
putBuild(req) ==
    IF ~Falsy(req.password) THEN [req EXCEPT !.stage = "put.hash"]
    ELSE putValidated(req)

\* PUT /users/:id up to the query for the user
PutUsers(r, param, username, password, role) ==
    /\ requests[r].stage = "idle"
    /\ requests' = [requests EXCEPT ![r] =
           [NoWrite EXCEPT !.stage = "put.exists", !.method = "PUT",
                           !.id = idOf(param), !.username = username,
                           !.password = password, !.role = role,
                           !.peers = InFlight \ {r}]]
    /\ UNCHANGED <<allBooks, call, result, log, now, http, bookHistory, users, client, heap>>

\* the row of the user arrives: 404 without it, otherwise a new username is
\* looked up among the other users
PutExists(r) ==
    /\ requests[r].stage = "put.exists"
    /\ requests' = [requests EXCEPT ![r] =
           IF idsById(users, requests[r].id) = {}
           THEN Responded(requests[r], 404, "User not found")
           ELSE IF ~Falsy(requests[r].username)
           THEN [requests[r] EXCEPT !.stage = "put.duplicates"]
           ELSE putBuild(requests[r])]
    /\ UNCHANGED <<allBooks, call, result, log, now, http, bookHistory, users, client, heap>>

\* the other rows that hold the username arrive: 409 if there is one
PutDuplicates(r) ==
    /\ requests[r].stage = "put.duplicates"
    /\ LET duplicates == idsByUsername(users, requests[r].username[1])
                             \ {requests[r].id}
           req        == [requests[r] EXCEPT !.existing = duplicates]
       IN  requests' = [requests EXCEPT ![r] =
               IF duplicates # {}
               THEN Responded(req, 409, "Username already exists")
               ELSE putBuild(req)]
    /\ UNCHANGED <<allBooks, call, result, log, now, http, bookHistory, users, client, heap>>

\* bcrypt.hash resolves
PutHashed(r) ==
    /\ requests[r].stage = "put.hash"
    /\ requests' = [requests EXCEPT ![r] = putValidated(requests[r])]
    /\ UNCHANGED <<allBooks, call, result, log, now, http, bookHistory, users, client, heap>>

\* the UPDATE is executed: the query throws (500), no row was affected
\* (404), or the user is updated
PutUpdated(r) ==
    /\ requests[r].stage = "put.update"
    /\ LET updated == updateUser(users, requests[r].id, requests[r].username,
                                 requests[r].role)
       IN  /\ users' = updated.table
           /\ requests' = [requests EXCEPT ![r] =
                  IF ~updated.ok
                  THEN [Responded(requests[r], 500, "Failed to update user")
                           EXCEPT !.refused = TRUE]
                  ELSE IF updated.affectedRows = 0
                  THEN Responded(requests[r], 404, "User not found")
                  ELSE [Responded(requests[r], 200, "User updated successfully")
                           EXCEPT !.wrote = TRUE]]
    /\ UNCHANGED <<allBooks, call, result, log, now, http, bookHistory, client, heap>>

\* the response has been sent: the request is over
Sent(r) ==
    /\ requests[r].stage = "done"
    /\ requests' = [q \in DOMAIN requests |->
                       IF q = r THEN NoWrite
                       ELSE [requests[q] EXCEPT !.peers = @ \ {r}]]
    /\ UNCHANGED <<allBooks, call, result, log, now, http, bookHistory, users, client, heap>>

\* the usernames, passwords and roles of the request bodies: a field may be
\* missing or empty
BodyUsernames == { None, Some(<<"a">>), Some(<<"f">>), Some(<<"F">>), Some(<<"s">>) }

BodyPasswords == { None, Some(<<"p">>) }

BodyRoles == { None, Some("siswa"), Some("x") }

\* the bodies of the PUT requests
PutBodies ==
    { [username |-> Some(<<"f">>), password |-> None,          role |-> None],
      [username |-> Some(<<"A">>), password |-> None,          role |-> None],
      [username |-> Some(<<"s">>), password |-> None,          role |-> None],
      [username |-> Some(<<"b">>), password |-> Some(<<"p">>), role |-> Some("siswa")],
      [username |-> None,          password |-> Some(<<"p">>), role |-> Some("x")],
      [username |-> Some(<<>>),    password |-> None,          role |-> None] }

\* the users table at the start: a librarian and a pupil
UserTables ==
    { [rows   |-> {[id |-> 1, username |-> <<"a">>, role |-> "pustakawan"],
                   [id |-> 2, username |-> <<"b">>, role |-> "siswa"]},
       nextId |-> 3] }

InitUsers ==
    /\ allBooks = <<>>
    /\ call = NoCall
    /\ result = <<>>
    /\ log = <<>>
    /\ now = Today
    /\ heap = NoHeap
    /\ requests = [r \in Requests |-> NoWrite]
    /\ http = NoRequest
    /\ bookHistory = {}
    /\ users \in UserTables
    /\ client = NoClient

NextUsers ==
    \/ \E r \in Requests, username \in BodyUsernames, password \in BodyPasswords,
          role \in BodyRoles :
           PostUsers(r, username, password, role)
    \/ \E r \in Requests : PostChecked(r)
    \/ \E r \in Requests : PostHashed(r)
    \/ \E r \in Requests : PostInserted(r)
    \/ \E r \in Requests, param \in { <<"1">>, <<"3">> }, body \in PutBodies :
           PutUsers(r, param, body.username, body.password, body.role)
    \/ \E r \in Requests : PutExists(r)
    \/ \E r \in Requests : PutDuplicates(r)
    \/ \E r \in Requests : PutHashed(r)
    \/ \E r \in Requests : PutUpdated(r)
    \/ \E r \in Requests : Sent(r)

SpecUsers == InitUsers /\ [][NextUsers]_vars

-----------------------------------------------------------------------------

(* The scorer on inputs that meet or miss the conditions of its range: a     *)
(* negative weight or view count, a label repeated in an item, a candidate  *)
(* that is not in the corpus, a creation time after the call.               *)

\* the books of these catalogs, without their ids
RangeShapes ==
    { Book(0, <<"a">>, Some(<<"f">>),                Some(<<"a">>), Some(5),  Some(Today)),
      Book(0, <<"b">>, Some(<<"f", ",", " ", "s">>), None,          Some(0),  Some(Today - 400)),
      Book(0, <<"b">>, Some(<<"f", ",", " ", "F">>), None,          Some(2),  Some(Today - 100)),
      Book(0, <<"a">>, Some(<<"s">>),                None,          Some(-3), Some(Today - 500)),
      Book(0, <<"a">>, Some(<<"f">>),                None,          Some(1),  Some(Today + 10)),
      Book(0, <<"b">>, None,                         None,          None,     None) }

\* profiles: empty, of total weight 0, one label, two labels, a total of 1
\* over two labels, a negative weight
RangeProfiles ==
    { [g \in {} |-> 0],
      [g \in {<<"f">>} |-> 0],
      [g \in {<<"f">>} |-> 10],
      [g \in {<<"f">>, <<"s">>} |-> IF g = <<"f">> THEN 3 ELSE 1],
      [g \in {<<"f">>, <<"s">>} |-> IF g = <<"f">> THEN 1 ELSE 0],
      [g \in {<<"f">>, <<"s">>} |-> IF g = <<"f">> THEN -2 ELSE 1] }

\* a book that is in no catalog
Outsider == Book(9, <<"a">>, Some(<<"f">>), None, Some(7), Some(Today))

\* candidate pools of a catalog: all of it, one book of it, none, all of it
\* and the outsider
RangePools(books) ==
    {books, <<>>, Append(books, Outsider)}
        \cup {<<books[i]>> : i \in 1..Len(books)}

InitRange ==
    /\ allBooks \in Catalogs(RangeShapes, MaxBooks - 1)
    /\ call = NoCall
    /\ result = <<>>
    /\ log = <<>>
    /\ now = Today
    /\ heap = NoHeap
    /\ requests = <<>>
    /\ http = NoRequest
    /\ users = NoUsers
    /\ client = NoClient
    /\ bookHistory = {}

NextRange ==
    \/ Respond
    \/ \E userGenreProfile \in RangeProfiles, candidatePool \in RangePools(allBooks),
          desiredCount \in {15} :
           ScoreForUser(userGenreProfile, candidatePool, desiredCount)

SpecRange == InitRange /\ [][NextRange]_vars

-----------------------------------------------------------------------------

(* The engine's arguments as objects.  heap.items are the objects, a        *)
(* reference being a position in it: the first heap.args of them are the    *)
(* books the caller holds.  heap.corpus and heap.pool are the arrays passed *)
(* as allBooks and candidateBooks (the route passes in candidateBooks books *)
(* of allBooks), heap.profile is the Map, heap.out the array returned.      *)

\* the objects an array refers to
Deref(h, array) == [i \in 1..Len(array) |-> h.items[array[i]]]

\* { ...book, similarity }
Spread(book, similarity) ==
    [f \in DOMAIN book \cup {"similarity"} |->
        IF f = "similarity" THEN similarity ELSE book[f]]

\* the end of both functions writing the similarity into the book itself and
\* returning the book: .map(item => { item.book.similarity = ...; return item.book })
returnedInPlace(h, top) ==
    [h EXCEPT !.items = [r \in 1..Len(h.items) |->
                            LET at == {k \in 1..Len(top) : top[k].book = r}
                            IN  IF at = {} THEN h.items[r]
                                ELSE Spread(h.items[r],
                                            top[CHOOSE k \in at : TRUE].similarity)],
              !.out = [k \in 1..Len(top) |-> top[k].book]]

\* .map(item => ({ ...item.book, similarity: ... })) over the slice: one new
\* object per entry, in a new array
returned(h, top) ==
    [h EXCEPT !.items = @ \o [k \in 1..Len(top) |->
                                 Spread(h.items[top[k].book], top[k].similarity)],
              !.out = [k \in 1..Len(top) |-> Len(h.items) + k]]

\* getRecommendations on objects: validBooks and similarities are new arrays
\* that refer to the books of allBooks
getRecommendationsOnHeap(h, targetId, topN) ==
    LET validRefs   == SelectSeq(h.corpus, LAMBDA r : HasGenre(h.items[r]))
        validBooks  == Deref(h, validRefs)
        targetIndex == FirstIndex([i \in 1..Len(validRefs) |->
                                      validBooks[i].id = targetId])
    IN  IF Len(validRefs) = 0 \/ targetIndex = 0 THEN [h EXCEPT !.out = <<>>]
        ELSE LET others == SelectSeq([i \in 1..Len(validRefs) |-> i],
                                     LAMBDA i : i # targetIndex)
                 values == similaritiesOf(validBooks, targetIndex)
                 similarities ==
                     [k \in 1..Len(others) |->
                         [book       |-> validRefs[others[k]],
                          similarity |-> values[k].similarity]]
             IN  returned(h, SliceTo(sortBySimilarity(similarities), topN))

\* getRecommendationsByTitle on objects
getRecommendationsByTitleOnHeap(h, title, topN) ==
    LET books == Deref(h, h.corpus)
        found == findByTitle(title, books)
    IN  IF found = 0 THEN [h EXCEPT !.out = <<>>]
        ELSE getRecommendationsOnHeap(h, books[found].id, topN)

\* getPersonalizedRecommendations on objects: scoredBooks is a new array
\* whose entries refer to the books of candidateBooks
getPersonalizedRecommendationsOnHeap(h, topN) ==
    LET candidateBooks == Deref(h, h.pool)
        books          == Deref(h, h.corpus)
    IN  IF Len(h.pool) = 0 THEN [h EXCEPT !.out = <<>>]
        ELSE LET scoredBooks ==
                     [i \in 1..Len(h.pool) |->
                         [book  |-> h.pool[i],
                          score |-> scoreOf(candidateBooks[i], h.profile, books)]]
                 top == SliceTo(sortByScore(scoredBooks), normalizedTopNOf(topN))
             IN  returned(h, [k \in 1..Len(top) |->
                                 [book |-> top[k].book, similarity |-> top[k].score]])

\* the caller reads its catalog again after the call
SimilarOnHeap(targetId, topN) ==
    LET h == getRecommendationsOnHeap(heap, targetId, topN)
    IN  /\ call = NoCall
        /\ call' = [NoCall EXCEPT !.op = "recommendSimilar",
                                  !.target = targetId, !.topN = topN]
        /\ heap' = h
        /\ allBooks' = Deref(h, h.corpus)
        /\ result' = getRecommendations([id |-> targetId], allBooks, topN).ret
        /\ log' = <<>>
        /\ UNCHANGED <<now, requests, web>>

ByLabelOnHeap(queryText, topN) ==
    LET h == getRecommendationsByTitleOnHeap(heap, queryText, topN)
    IN  /\ call = NoCall
        /\ call' = [NoCall EXCEPT !.op = "recommendByLabel",
                                  !.query = queryText, !.topN = topN]
        /\ heap' = h
        /\ allBooks' = Deref(h, h.corpus)
        /\ result' = getRecommendationsByTitle(queryText, allBooks, topN).ret
        /\ log' = <<>>
        /\ UNCHANGED <<now, requests, web>>

ScoreOnHeap(desiredCount) ==
    LET h == getPersonalizedRecommendationsOnHeap(heap, desiredCount)
    IN  /\ call = NoCall
        /\ call' = [NoCall EXCEPT !.op = "scoreForUser", !.profile = heap.profile,
                                  !.pool = Deref(heap, heap.pool),
                                  !.topN = desiredCount]
        /\ heap' = h
        /\ allBooks' = Deref(h, h.corpus)
        /\ result' = getPersonalizedRecommendations(heap.profile,
                         Deref(heap, heap.pool), allBooks, desiredCount)
        /\ log' = <<>>
        /\ UNCHANGED <<now, requests, web>>

\* the caller has used the returned array and lets go of it
Return ==
    /\ call # NoCall
    /\ call' = NoCall
    /\ result' = <<>>
    /\ log' = <<>>
    /\ heap' = [heap EXCEPT !.items = SubSeq(@, 1, heap.args), !.out = <<>>]
    /\ UNCHANGED <<allBooks, now, requests, web>>

\* candidate pools over n books: all of them, none, all but the first, all
\* in reverse
HeapPools(n) ==
    { [i \in 1..n |-> i], <<>>, [i \in 1..(n - 1) |-> i + 1],
      [i \in 1..n |-> n + 1 - i] }

InitHeap ==
    /\ allBooks \in Catalogs(ScoreShapes, MaxBooks)
    /\ call = NoCall
    /\ result = <<>>
    /\ log = <<>>
    /\ now = Today
    /\ requests = <<>>
    /\ http = NoRequest
    /\ users = NoUsers
    /\ client = NoClient
    /\ bookHistory = {}
    /\ \E pool \in HeapPools(Len(allBooks)), profile \in Profiles :
           heap = [items |-> allBooks, args |-> Len(allBooks),
                   corpus |-> [i \in 1..Len(allBooks) |-> i],
                   pool |-> pool, profile |-> profile, out |-> <<>>]

NextHeap ==
    \/ \E targetId \in 1..(MaxBooks + 1), topN \in {-1, MaxTopN} :
           SimilarOnHeap(targetId, topN)
    \/ \E queryText \in Queries, topN \in {-1, MaxTopN} :
           ByLabelOnHeap(queryText, topN)
    \/ \E desiredCount \in DesiredCounts : ScoreOnHeap(desiredCount)
    \/ Return

SpecHeap == InitHeap /\ [][NextHeap]_vars

-----------------------------------------------------------------------------

(* The librarian's student-history view (views/dashboard, the component of  *)
(* the route /dashboard/student-history/:id).  A synchronous run of the     *)
(* script, up to the first await of every function it calls, is one step;   *)
(* an API call settles in a later step.  The API client (services/api) is   *)
(* taken to send getStudentHistory to GET /users/history/student/:id and    *)
(* getPersonalizedForUser to GET /recommend/user/:id.                       *)

\* parseInt(route.params.id) || 0
studentIdOf(param) ==
    LET n == parseInt(param) IN IF n = None THEN 0 ELSE n[1]

\* the refs of the component when its setup has run
NewView(user, param) ==
    [page |-> "studentHistory", user |-> user, studentId |-> studentIdOf(param),
     student |-> None, bookHistory |-> <<>>, recommendations |-> <<>>,
     loading |-> TRUE, loadingRecommendations |-> FALSE, error |-> "",
     pending |-> {}, sent |-> {}, pushed |-> <<>>,
     tested |-> FALSE, delivered |-> FALSE]

\* fetchStudentHistory up to its await
historyRequested(view) ==
    [view EXCEPT !.loading = TRUE, !.error = "",
                 !.pending = @ \cup {"getStudentHistory"},
                 !.sent = @ \cup {"getStudentHistory"}]

\* fetchRecommendations up to its await, or to its end when bookHistory is
\* empty
recommendationsRequested(view) ==
    IF Len(view.bookHistory) = 0
    THEN [view EXCEPT !.recommendations = <<>>, !.loadingRecommendations = FALSE,
                      !.tested = TRUE]
    ELSE [view EXCEPT !.loadingRecommendations = TRUE, !.tested = TRUE,
                      !.pending = @ \cup {"getPersonalizedForUser"},
                      !.sent = @ \cup {"getPersonalizedForUser"}]

\* the page is opened: setup and the onMounted hook run
Mount(user, param) ==
    /\ client.page = "none"
    /\ LET view == NewView(user, param)
       IN  client' =
               IF user = None \/ user[1].role # "pustakawan"
               THEN [view EXCEPT !.pushed = Append(@, "/")]
               ELSE IF view.studentId = 0
               THEN [view EXCEPT !.pushed = Append(@, "/dashboard/students")]
               ELSE recommendationsRequested(historyRequested(view))
    /\ UNCHANGED <<allBooks, call, result, log, now, requests, http, bookHistory, users, heap>>

\* the rows GET /users/history/student/:studentId answers with, in any
\* order the model's rows allow
studentHistoryOf(studentId) ==
    LET rows == historyRowsOf(Some(studentId))
    IN  {s \in [1..Cardinality(rows) -> rows] :
            \A i, j \in 1..Cardinality(rows) : i # j => s[i] # s[j]}

\* the rest of fetchStudentHistory: the response, or the error of the catch
\* block, and loading = false
historySettled(view, status, student, history) ==
    [view EXCEPT
        !.pending = @ \ {"getStudentHistory"},
        !.loading = FALSE,
        !.delivered = TRUE,
        !.student = IF status = 200 THEN Some(student) ELSE @,
        !.bookHistory = IF status = 200 THEN history ELSE @,
        !.error = CASE status = 200 -> @
                    [] status = 404 -> "Siswa tidak ditemukan"
                    [] status = 403 -> "Anda tidak memiliki akses untuk melihat data ini"
                    [] status = 500 -> "Failed to fetch student history"
                    [] OTHER        -> "Gagal memuat riwayat siswa"]

\* the rest of fetchRecommendations
recommendationsSettled(view, status, recommendations) ==
    [view EXCEPT
        !.pending = @ \ {"getPersonalizedForUser"},
        !.loadingRecommendations = FALSE,
        !.recommendations = IF status = 200 THEN recommendations ELSE <<>>]

\* a pending API call settles: the server answers from its tables, refuses
\* (403), fails (500), or the network fails (0)
Settle(name, failure) ==
    /\ client.page = "studentHistory"
    /\ name \in client.pending
    /\ IF name = "getStudentHistory"
       THEN LET students == {u \in users.rows :
                                u.id = client.studentId /\ u.role = "siswa"}
            IN  IF failure # 200
                THEN client' = historySettled(client, failure, None, <<>>)
                ELSE IF students = {}
                THEN client' = historySettled(client, 404, None, <<>>)
                ELSE \E student \in students,
                        history \in studentHistoryOf(client.studentId) :
                         client' = historySettled(client, 200, student, history)
       ELSE LET books == withViewCount(allBooks)
            IN  \E p \in OrderingsBy(Len(books), NewerFirst(books)) :
                   client' = recommendationsSettled(client, failure,
                                 personalizedOf(historyRowsOf(Some(client.studentId)),
                                                [i \in 1..Len(books) |-> books[p[i]]]))
    /\ UNCHANGED <<allBooks, call, result, log, now, requests, http, bookHistory, users, heap>>

\* the 'Coba Lagi' button of the error state: fetchStudentHistory
Retry ==
    /\ client.page = "studentHistory"
    /\ ~client.loading
    /\ client.error # ""
    /\ client' = historyRequested(client)
    /\ UNCHANGED <<allBooks, call, result, log, now, requests, http, bookHistory, users, heap>>

\* the router has left the page (goBack, or the push of onMounted): the
\* component is gone
Leave ==
    /\ client.page = "studentHistory"
    /\ client' = NoClient
    /\ UNCHANGED <<allBooks, call, result, log, now, requests, http, bookHistory, users, heap>>

\* the user of the auth store when the page is opened
ViewUsers ==
    { None,
      Some([id |-> 1, role |-> "pustakawan"]),
      Some([id |-> 2, role |-> "siswa"]) }

\* the :id of the route
StudentParams == { <<"1">>, <<"2">>, <<"2", "b">>, <<"7">>, <<"x">> }

InitView ==
    /\ allBooks \in RouteTables
    /\ bookHistory \in {rows \in HistoryTables :
                            \A h \in rows : \E i \in 1..Len(allBooks) :
                                allBooks[i].id = h.book_id}
    /\ call = NoCall
    /\ result = <<>>
    /\ log = <<>>
    /\ now = Today
    /\ heap = NoHeap
    /\ requests = <<>>
    /\ http = NoRequest
    /\ users \in UserTables
    /\ client = NoClient

NextView ==
    \/ \E user \in ViewUsers, param \in StudentParams : Mount(user, param)
    \/ \E name \in {"getStudentHistory", "getPersonalizedForUser"},
          failure \in {200, 403, 500, 0} :
           Settle(name, failure)
    \/ Retry
    \/ Leave

SpecView == InitView /\ [][NextView]_vars

-----------------------------------------------------------------------------

(* The auth store (stores/auth).  The store is set up inside a component, so *)
(* useRouter() gives the router.  A call of logout() is two steps: to its   *)
(* await of authAPI.logout(), and from the settled call to the end of its   *)
(* finally block.  The login page, which writes localStorage, and the other *)
(* navigations are the store's environment.                                 *)

\* logout() calls that may wait for the server at a time
MaxLogouts == 2

\* the users the login page stores, as the JSON text of localStorage
UserJSON(userData) ==
    CASE userData = [id |-> 1, role |-> "pustakawan"] -> "{id:1,role:pustakawan}"
      [] userData = [id |-> 2, role |-> "siswa"]      -> "{id:2,role:siswa}"

\* JSON.parse of an item of localStorage: the value, null, or a SyntaxError
JSONParse(text) ==
    CASE text = "{id:1,role:pustakawan}" ->
             [thrown |-> FALSE, value |-> Some([id |-> 1, role |-> "pustakawan"])]
      [] text = "{id:2,role:siswa}" ->
             [thrown |-> FALSE, value |-> Some([id |-> 2, role |-> "siswa"])]
      [] text = "null" -> [thrown |-> FALSE, value |-> None]
      [] OTHER -> [thrown |-> TRUE, value |-> None]

\* the store and what it touches: user (None is null), the items 'token' and
\* 'user' of localStorage (None is a missing item), the route last pushed,
\* the logout() calls awaiting the server and how the last one settled
NewStore(token, item) ==
    [page |-> "store", user |-> None, token |-> token, item |-> item,
     route |-> "/", awaiting |-> 0, last |-> "none"]

\* isLoggedIn
isLoggedIn(store) == store.user # None

\* setUser(userData)
SetUser(userData) ==
    /\ client.page = "store"
    /\ client' = [client EXCEPT !.user = Some(userData)]
    /\ UNCHANGED <<allBooks, call, result, log, now, requests, http, bookHistory, users, heap>>

\* clearUser()
clearUser(store) == [store EXCEPT !.user = None]

ClearUser ==
    /\ client.page = "store"
    /\ client' = clearUser(client)
    /\ UNCHANGED <<allBooks, call, result, log, now, requests, http, bookHistory, users, heap>>

\* initUser(): an item that is missing or '' is skipped; text that does not
\* parse throws and leaves the user as it was
InitUser ==
    /\ client.page = "store"
    /\ client' = IF client.item = None \/ client.item = Some("") THEN client
                 ELSE LET parsed == JSONParse(client.item[1])
                      IN  IF parsed.thrown THEN client
                          ELSE [client EXCEPT !.user = parsed.value]
    /\ UNCHANGED <<allBooks, call, result, log, now, requests, http, bookHistory, users, heap>>

\* the login page has logged a user in: token and user are stored
LoggedIn(userData) ==
    /\ client.page = "store"
    /\ client' = [client EXCEPT !.token = Some("t"),
                                !.item = Some(UserJSON(userData)),
                                !.user = Some(userData),
                                !.route = "/dashboard"]
    /\ UNCHANGED <<allBooks, call, result, log, now, requests, http, bookHistory, users, heap>>

\* logout(): authAPI.logout() is called and awaited
Logout ==
    /\ client.page = "store"
    /\ client.awaiting < MaxLogouts
    /\ client' = [client EXCEPT !.awaiting = @ + 1]
    /\ UNCHANGED <<allBooks, call, result, log, now, requests, http, bookHistory, users, heap>>

\* a logout() whose cleanup follows the await inside the try block
logoutSettledInTry(store, resolved) ==
    IF resolved
    THEN [clearUser(store) EXCEPT !.token = None, !.item = None,
                                  !.route = "/login", !.awaiting = @ - 1,
                                  !.last = "resolved"]
    ELSE [store EXCEPT !.awaiting = @ - 1, !.last = "rejected"]

\* the rest of logout(): the catch block logs a rejection, the finally block
\* removes both items, clears the user and pushes /login
logoutSettled(store, resolved) ==
    [clearUser(store) EXCEPT !.token = None, !.item = None,
                             !.route = "/login", !.awaiting = @ - 1,
                             !.last = IF resolved THEN "resolved" ELSE "rejected"]

\* authAPI.logout() resolves or rejects
LogoutSettled(resolved) ==
    /\ client.page = "store"
    /\ client.awaiting > 0
    /\ client' = logoutSettled(client, resolved)
    /\ UNCHANGED <<allBooks, call, result, log, now, requests, http, bookHistory, users, heap>>

\* the users that log in
StoreUsers == { [id |-> 1, role |-> "pustakawan"], [id |-> 2, role |-> "siswa"] }

\* the item 'user' found when the application starts
StoredItems ==
    { None, Some(""), Some("null"), Some("{id:") }
        \cup { Some(UserJSON(userData)) : userData \in StoreUsers }

InitAuth ==
    /\ allBooks = <<>>
    /\ call = NoCall
    /\ result = <<>>
    /\ log = <<>>
    /\ now = Today
    /\ heap = NoHeap
    /\ requests = <<>>
    /\ http = NoRequest
    /\ bookHistory = {}
    /\ users = NoUsers
    /\ \E token \in {None, Some("t")}, item \in StoredItems :
           client = NewStore(token, item)

NextAuth ==
    \/ \E userData \in StoreUsers : SetUser(userData)
    \/ ClearUser
    \/ InitUser
    \/ \E userData \in StoreUsers : LoggedIn(userData)
    \/ Logout
    \/ \E resolved \in BOOLEAN : LogoutSettled(resolved)

SpecAuth == InitAuth /\ [][NextAuth]_vars

-----------------------------------------------------------------------------

(* Properties of the Similarity Engine, checked under Spec *)

IsSimilarCall == call.op = "recommendSimilar"

IsLabelCall == call.op = "recommendByLabel"

\* the positions of the catalog whose book has a usable genre field
ValidPositions == {i \in 1..Len(allBooks) : ~Falsy(allBooks[i].genre_name)}

\* the target of the latest recommendSimilar call is a valid book of the catalog
TargetIsValid == \E i \in ValidPositions : allBooks[i].id = call.target

PositionOf(book) == CHOOSE i \in 1..Len(allBooks) : allBooks[i] = book

\* C1: for a catalog that contains the target, the list recommendSimilar
\* returns never holds the target itself, whatever topN is.
C1_SelfExclusion ==
    (IsSimilarCall /\ \E i \in 1..Len(allBooks) : allBooks[i].id = call.target)
        => \A k \in 1..Len(result) :
              /\ result[k].book.id # call.target
              /\ result[k].book \in Range(allBooks)

C1_Witness ==
    /\ IsSimilarCall
    /\ TargetIsValid
    /\ Len(result) = 2
    /\ Cardinality(ValidPositions) = 3

\* x is ranked ahead of y: strictly more similar, or equally similar and
\* earlier in the catalog
RankedAhead(x, y) ==
    \/ RootCmp(x.similarity, y.similarity) > 0
    \/ /\ RootCmp(x.similarity, y.similarity) = 0
       /\ PositionOf(x.book) < PositionOf(y.book)

\* the similarity the engine assigns to every candidate of the latest call
CandidateScores ==
    LET validBooks == validBooksOf(allBooks)
        targetIndex == CHOOSE i \in 1..Len(validBooks) : validBooks[i].id = call.target
    IN  Range(similaritiesOf(validBooks, targetIndex))

\* C2: for a valid target and topN >= 0 the result is the list of all valid
\* books other than the target, by similarity descending, equally similar
\* books in catalog order, cut to its first topN entries: it has
\* min(topN, valid books - 1) entries.
C2_RankedTruncation ==
    (IsSimilarCall /\ TargetIsValid /\ call.topN >= 0)
        => /\ Len(result) = Min(call.topN, Cardinality(ValidPositions) - 1)
           /\ \A k \in 1..Len(result) :
                 /\ result[k] \in CandidateScores
                 /\ PositionOf(result[k].book) \in ValidPositions
                 /\ result[k].book.id # call.target
           /\ \A i, j \in 1..Len(result) : i < j => RankedAhead(result[i], result[j])
           /\ \A c \in CandidateScores :
                 c \notin Range(result)
                     => \A k \in 1..Len(result) : RankedAhead(result[k], c)

\* of two candidates the later in the catalog is the more similar: it is
\* moved to the front and topN = 1 cuts the other off
C2_Witness ==
    /\ IsSimilarCall /\ TargetIsValid /\ call.topN = 1
    /\ Len(result) = 1
    /\ Cardinality(ValidPositions) = 3
    /\ \E c \in CandidateScores :
          /\ c \notin Range(result)
          /\ RootCmp(result[1].similarity, c.similarity) > 0
          /\ PositionOf(result[1].book) > PositionOf(c.book)

\* C5: recommendSimilar with an identifier no catalog book carries,
\* recommendByLabel with a query no title contains, and either call on an
\* empty catalog return the empty list (the call completes with a value).
C5_EmptyOnNoMatch ==
    /\ (IsSimilarCall /\ \A i \in 1..Len(allBooks) : allBooks[i].id # call.target)
           => result = <<>>
    /\ (IsLabelCall /\ \A i \in 1..Len(allBooks) :
                           ~includes(toLowerCase(allBooks[i].title),
                                     toLowerCase(call.query)))
           => result = <<>>
    /\ ((IsSimilarCall \/ IsLabelCall) /\ allBooks = <<>>) => result = <<>>

\* a query that no title of a catalog with valid books contains
C5_Witness ==
    /\ IsLabelCall
    /\ call.query = <<"f">>
    /\ Cardinality(ValidPositions) >= 2
    /\ result = <<>>
    /\ log = <<[level |-> "warn", what |-> "no title match", id |-> 0]>>

\* C6: when every book of the catalog lacks a genre, recommendSimilar
\* returns the empty list and writes one warning per skipped book, in
\* catalog order, followed by the "no valid books" error.
C6_AllGenresMissing ==
    (IsSimilarCall /\ ValidPositions = {})
        => /\ result = <<>>
           /\ Len(log) = Len(allBooks) + 1
           /\ \A i \in 1..Len(allBooks) :
                 log[i] = [level |-> "warn", what |-> "skip", id |-> allBooks[i].id]
           /\ log[Len(log)] = [level |-> "error", what |-> "no valid books", id |-> 0]

\* a catalog of one book with a null genre and one with an empty genre
C6_Witness ==
    /\ IsSimilarCall
    /\ Len(allBooks) >= 2
    /\ ValidPositions = {}
    /\ \E i, j \in 1..Len(allBooks) :
          /\ allBooks[i].genre_name = None
          /\ allBooks[j].genre_name = Some(<<>>)
    /\ Len(log) = Len(allBooks) + 1

\* C7: no book without a genre is ever in a recommendSimilar result, and
\* every such book of the catalog has its own warning in the log.
C7_SkipIsObservable ==
    IsSimilarCall
        => /\ \A k \in 1..Len(result) : ~Falsy(result[k].book.genre_name)
           /\ \A i \in 1..Len(allBooks) :
                 Falsy(allBooks[i].genre_name)
                     => \E k \in 1..Len(log) :
                           log[k] = [level |-> "warn", what |-> "skip",
                                     id |-> allBooks[i].id]

\* a book is skipped and the call still recommends another one
C7_Witness ==
    /\ IsSimilarCall
    /\ result # <<>>
    /\ \E i \in 1..Len(allBooks) : Falsy(allBooks[i].genre_name)
    /\ Len(log) = 1

\* the positions whose lower-cased title contains the lower-cased query
MatchPositions ==
    {i \in 1..Len(allBooks) :
        \E a \in 0..(Len(allBooks[i].title) - Len(call.query)) :
            SubSeq(toLowerCase(allBooks[i].title), a + 1, a + Len(call.query))
                = toLowerCase(call.query)}

\* C8: recommendByLabel returns exactly what recommendSimilar returns for
\* the first book, in catalog order, whose lower-cased title contains the
\* lower-cased query; later matches play no part.
C8_LabelDelegates ==
    (IsLabelCall /\ MatchPositions # {})
        => LET first == CHOOSE i \in MatchPositions : \A j \in MatchPositions : i <= j
               same  == getRecommendations([id |-> allBooks[first].id], allBooks, call.topN)
           IN  result = same.ret /\ log = same.log

\* a capital query matches two titles, one of them only after lower-casing,
\* and the result is that of the first
C8_Witness ==
    /\ IsLabelCall
    /\ call.query = <<"B">>
    /\ Cardinality(MatchPositions) >= 2
    /\ \E i \in MatchPositions : <<"B">> \notin Range(tokenize(allBooks[i].title)) \cup {allBooks[i].title}
    /\ Len(result) = 2
    /\ RootCmp(result[1].similarity, result[2].similarity) > 0

\* C9: for two valid books A and B, the similarity recommendSimilar(A)
\* reports for B is the one recommendSimilar(B) reports for A.
C9_Symmetric ==
    (IsSimilarCall /\ TargetIsValid)
        => \A k \in 1..Len(result) :
              LET back == getRecommendations([id |-> result[k].book.id], allBooks,
                                             Len(allBooks)).ret
              IN  \E m \in 1..Len(back) :
                     /\ back[m].book.id = call.target
                     /\ back[m].similarity = result[k].similarity

\* a similarity strictly between 0 and 1 between two different books,
\* the target not being the first valid book
C9_Witness ==
    /\ IsSimilarCall /\ TargetIsValid
    /\ Len(result) = 2
    /\ \E i \in ValidPositions : allBooks[i].id = call.target /\ i > 1
    /\ result[1].similarity.sign = 1
    /\ result[1].similarity.num < result[1].similarity.den
    /\ RootCmp(result[1].similarity, result[2].similarity) > 0

\* C10: every similarity recommendSimilar returns lies in [0, 1], and every
\* component of every combined vector is non-negative.
C10_UnitRange ==
    IsSimilarCall
        => /\ \A k \in 1..Len(result) :
                 /\ result[k].similarity.sign \in {0, 1}
                 /\ 0 <= result[k].similarity.num
                 /\ result[k].similarity.num <= result[k].similarity.den
           /\ LET combinedVectors == combinedVectorsOf(validBooksOf(allBooks))
              IN  \A i \in 1..Len(combinedVectors) :
                     \A key \in DOMAIN combinedVectors[i] : combinedVectors[i][key] >= 0

\* results at both ends of the range and strictly inside it
C10_Witness ==
    /\ IsSimilarCall
    /\ Len(result) = 2
    /\ result[1].similarity = [sign |-> 1, num |-> 1, den |-> 1]
    /\ result[2].similarity.sign = 1
    /\ result[2].similarity.num < result[2].similarity.den

-----------------------------------------------------------------------------
(* The key set of the combined vectors *)

\* the terms of the titles of the valid books of the catalog
TitleVocabulary ==
    UNION {Range(tokenize(allBooks[i].title)) : i \in ValidPositions}

\* the terms of the synopses of the valid books (a missing synopsis is '')
SynopsisVocabulary ==
    UNION {Range(tokenize(allBooks[i].synopsis[1])) :
              i \in {j \in ValidPositions : ~Falsy(allBooks[j].synopsis)}}

\* the keys every combined vector of the latest call must have
SharedKeys ==
    {<<"title", t>> : t \in TitleVocabulary}
    \cup {<<"genre", i>> : i \in 1..Len(extractAllGenres(validBooksOf(allBooks)))}
    \cup {<<"synopsis", t>> : t \in SynopsisVocabulary}

\* C21: within one recommendSimilar call the combined vectors of all valid
\* books have the same key set: one title key per term of the titles of the
\* valid books, one genre key per index of the genre vocabulary, one synopsis
\* key per term of their synopses; the value is 0 at a term or a genre the
\* book does not have.
C21_SharedKeySet ==
    IsSimilarCall
        => LET validBooks      == validBooksOf(allBooks)
               allGenres       == extractAllGenres(validBooks)
               combinedVectors == combinedVectorsOf(validBooks)
           IN  \A i \in 1..Len(validBooks) :
                  /\ DOMAIN combinedVectors[i] = SharedKeys
                  /\ \A t \in TitleVocabulary \ Range(tokenize(validBooks[i].title)) :
                        combinedVectors[i][<<"title", t>>] = 0
                  /\ \A t \in SynopsisVocabulary :
                        (Falsy(validBooks[i].synopsis)
                            \/ t \notin Range(tokenize(validBooks[i].synopsis[1])))
                        => combinedVectors[i][<<"synopsis", t>>] = 0
                  /\ \A g \in 1..Len(allGenres) :
                        allGenres[g] \notin Range(bookGenresOf(validBooks[i]))
                            => combinedVectors[i][<<"genre", g>>] = 0

\* three valid books of which one lacks a title term, a synopsis term and a
\* genre that another one has
C21_Witness ==
    /\ IsSimilarCall /\ TargetIsValid
    /\ Cardinality(ValidPositions) = 3
    /\ Cardinality(TitleVocabulary) = 2
    /\ Cardinality(SynopsisVocabulary) = 2
    /\ Len(extractAllGenres(validBooksOf(allBooks))) = 2
    /\ \E i \in ValidPositions :
          /\ Range(tokenize(allBooks[i].title)) # TitleVocabulary
          /\ Falsy(allBooks[i].synopsis)
          /\ Cardinality(Range(bookGenresOf(allBooks[i]))) = 1
    /\ Len(result) = 2

-----------------------------------------------------------------------------

(* Properties of the Personalization Scorer, checked under SpecScore *)

IsScoreCall == call.op = "scoreForUser"

Clamp(n, lo, hi) == IF n < lo THEN lo ELSE IF n > hi THEN hi ELSE n

\* C3: a pool of 20 or more candidates yields between 10 and 20 items, and
\* a pool of K < 20 candidates yields min(K, clamp(desiredCount, 10, 20)).
C3_ClampedCount ==
    IsScoreCall
        => /\ Len(call.pool) >= 20 => (10 <= Len(result) /\ Len(result) <= 20)
           /\ Len(call.pool) < 20
                 => Len(result) = Min(Len(call.pool), Clamp(call.topN, 10, 20))
           /\ Len(result) = Min(Len(call.pool), Clamp(call.topN, 10, 20))

\* a pool above 20 with a desired count above 20, cut to 20
C3_Witness ==
    /\ IsScoreCall
    /\ Len(call.pool) > 20
    /\ call.topN > 20
    /\ Len(result) = 20

PoolPositionOf(book) == CHOOSE i \in 1..Len(call.pool) : call.pool[i] = book

\* C4: the output of scoreForUser is in descending order of score, and two
\* candidates of equal score keep the order they have in the pool.
C4_StableDescending ==
    IsScoreCall
        => \A i, j \in 1..Len(result) :
              i < j =>
                 /\ result[i].book \in Range(call.pool)
                 /\ RatCmp(result[i].similarity, result[j].similarity) >= 0
                 /\ RatCmp(result[i].similarity, result[j].similarity) = 0
                       => PoolPositionOf(result[i].book) < PoolPositionOf(result[j].book)

\* equal scores in pool order behind a higher score from later in the pool
C4_Witness ==
    /\ IsScoreCall
    /\ Len(result) >= 3
    /\ RatCmp(result[1].similarity, result[2].similarity) > 0
    /\ PoolPositionOf(result[1].book) > PoolPositionOf(result[2].book)
    /\ \E i \in 2..(Len(result) - 1) :
          /\ result[i].similarity = result[i + 1].similarity
          /\ result[i].book # result[i + 1].book

\* the genre labels a candidate carries: none without a genre field
LabelsOf(book) ==
    IF book.genre_name = None \/ book.genre_name = Some(<<>>) THEN <<>>
    ELSE LET parts == split(book.genre_name[1], ",")
         IN  [i \in 1..Len(parts) |-> toLowerCase(trim(parts[i]))]

\* the weight the profile of the call gives a label
ProfileWeight(label) ==
    IF label \in DOMAIN call.profile THEN call.profile[label] ELSE 0

\* the profile weights of the candidate's labels, summed
SummedProfileWeight(book) ==
    SumSeq([i \in 1..Len(LabelsOf(book)) |-> ProfileWeight(LabelsOf(book)[i])])

\* the positions of the result that hold the candidate
ResultPositionsOf(book) == {k \in 1..Len(result) : result[k].book = book}

\* C14: of two candidates with equal popularity and equal creation time, the
\* one whose labels have the strictly larger summed profile weight is never
\* ranked below the other: if the lighter one is returned, the heavier one is
\* returned ahead of it, whatever their order in the pool.
C14_HeavierGenreFirst ==
    IsScoreCall =>
        LET n          == Len(call.pool)
            popularity == [i \in 1..n |-> popularityOf(allBooks, call.pool[i].id)] \o <<>>
            weight     == [i \in 1..n |-> SummedProfileWeight(call.pool[i])] \o <<>>
        IN  \A i, j \in 1..n :
                (/\ popularity[i] = popularity[j]
                 /\ call.pool[i].created_at = call.pool[j].created_at
                 /\ weight[i] > weight[j])
                    => \A b \in ResultPositionsOf(call.pool[j]) :
                          \E a \in ResultPositionsOf(call.pool[i]) : a < b

\* profile {f: 10}, pool [itemB(s, popularity 5, today), itemA(f, popularity 5,
\* today)]: itemA is returned first
C14_Witness ==
    /\ IsScoreCall
    /\ call.profile = [g \in {<<"f">>} |-> 10]
    /\ Len(call.pool) = 2
    /\ call.pool[1].genre_name = Some(<<"s">>)
    /\ call.pool[2].genre_name = Some(<<"f">>)
    /\ call.pool[1].created_at = Some(now)
    /\ call.pool[2].created_at = Some(now)
    /\ popularityOf(allBooks, call.pool[1].id) = 5
    /\ popularityOf(allBooks, call.pool[2].id) = 5
    /\ Len(result) = 2
    /\ result[1].book = call.pool[2]
    /\ result[2].book = call.pool[1]

\* the total weight of the profile of the call, floored at 1
TotalProfileWeight ==
    LET total == SumFun(call.profile, DOMAIN call.profile)
    IN  IF total < 1 THEN 1 ELSE total

\* the popularity count the full corpus records for an item id: 0 if the
\* corpus has no such item or the item has no count
PopularityInCorpus(id) ==
    IF \E i \in 1..Len(allBooks) :
           allBooks[i].id = id /\ allBooks[i].view_count # None
    THEN LET i == CHOOSE i \in 1..Len(allBooks) : allBooks[i].id = id
         IN  allBooks[i].view_count[1]
    ELSE 0

\* the largest popularity count of the full corpus, floored at 1
MaxPopularityInCorpus ==
    LET counts == {PopularityInCorpus(allBooks[i].id) : i \in 1..Len(allBooks)} \cup {1}
    IN  CHOOSE m \in counts : \A c \in counts : c <= m

\* 365 * max(0, 1 - ageInDays / 365), 0 without a creation time
Recency365(book) ==
    IF book.created_at = None THEN 0
    ELSE IF now - book.created_at[1] >= 365 THEN 0
    ELSE 365 - (now - book.created_at[1])

\* 0.4 * genreAffinity + 0.3 * popularityScore + 0.3 * recencyScore as a
\* fraction over the common denominator 10 * total weight * max popularity * 365
ExpectedScore(book) ==
    [num |-> 4 * SummedProfileWeight(book) * MaxPopularityInCorpus * 365
               + 3 * PopularityInCorpus(book.id) * TotalProfileWeight * 365
               + 3 * Recency365(book) * TotalProfileWeight * MaxPopularityInCorpus,
     den |-> 10 * TotalProfileWeight * MaxPopularityInCorpus * 365]

\* C17: the score returned with every candidate equals 0.4 * genreAffinity
\* + 0.3 * popularityScore + 0.3 * recencyScore, with genreAffinity the summed
\* profile weight of the labels over max(total profile weight, 1),
\* popularityScore the corpus popularity over max(largest popularity, 1), and
\* recencyScore max(0, 1 - ageInDays / 365), 0 without a creation time.
C17_ScoreFormula ==
    IsScoreCall =>
        \A k \in 1..Len(result) :
            RatCmp(result[k].similarity, ExpectedScore(result[k].book)) = 0

\* one returned candidate has all three terms strictly between 0 and their
\* maximum, another has neither genre nor creation time
C17_Witness ==
    /\ IsScoreCall
    /\ \E k \in 1..Len(result) :
          LET book == result[k].book
          IN  /\ SummedProfileWeight(book) > 0
              /\ SummedProfileWeight(book) < TotalProfileWeight
              /\ PopularityInCorpus(book.id) > 0
              /\ PopularityInCorpus(book.id) < MaxPopularityInCorpus
              /\ Recency365(book) > 0
              /\ Recency365(book) < 365
    /\ \E k \in 1..Len(result) :
          /\ result[k].book.genre_name = None
          /\ result[k].book.created_at = None

\* the cosine of a combined vector of norm 0 with any vector over the same
\* keys is 0, in either argument order
ZeroNormYieldsZero ==
    LET keys == {<<"title", <<"a">>>>, <<"genre", 1>>}
        zero == [k \in keys |-> 0]
    IN  \A v \in [keys -> {0, One}] :
            /\ cosineSimilarity(zero, v) = Root(0, 0, 1)
            /\ cosineSimilarity(v, zero) = Root(0, 0, 1)

-----------------------------------------------------------------------------
(* Properties of concurrent requests, checked under SpecPar *)

\* two requests whose engine calls have returned, with equal arguments
SameArguments(r1, r2) ==
    /\ requests[r1].stage = "done"
    /\ requests[r2].stage = "done"
    /\ requests[r1].call = requests[r2].call
    /\ requests[r1].snapshot = requests[r2].snapshot

-----------------------------------------------------------------------------
(* Properties of the fantasy/fantasy/sains scenario, checked under SpecScenario *)

\* C13: for corpus = [item1(fantasy), item2(fantasy), item3(sains)],
\* recommendSimilar(item1.id, corpus, 2) returns item2 then item3, and the
\* similarity of item2 is strictly greater, whatever the titles and synopses.
C13_SharedGenreFirst ==
    IsSimilarCall =>
        /\ Len(result) = 2
        /\ result[1].book = allBooks[2]
        /\ result[2].book = allBooks[3]
        /\ RootCmp(result[1].similarity, result[2].similarity) > 0

\* the texts favour item3: it has the title and the synopsis of item1, and
\* item2 shares no term with item1
C13_Witness ==
    /\ IsSimilarCall
    /\ allBooks[3].title = allBooks[1].title
    /\ allBooks[3].synopsis = allBooks[1].synopsis
    /\ allBooks[1].synopsis # None
    /\ allBooks[2].title = <<"c">>
    /\ allBooks[2].synopsis = Some(<<"b">>)
    /\ allBooks[1].synopsis = Some(<<"a">>)
    /\ result[2].similarity.sign = 1

-----------------------------------------------------------------------------
(* Properties of the Categorical Encoder, checked under SpecEncode *)

\* the labels of the valid items of the corpus: split on commas, trimmed,
\* lower-cased
ValidLabels ==
    UNION {Range(LabelsOf(allBooks[i])) : i \in ValidPositions}

\* the multi-hot encoding of the book over the vocabulary
IsEncodingOf(vector, book, vocabulary) ==
    /\ Len(vector) = Len(vocabulary)
    /\ \A i \in 1..Len(vocabulary) :
          /\ vector[i] \in {0, 1}
          /\ vector[i] = 1 <=> toLowerCase(vocabulary[i]) \in Range(LabelsOf(book))

\* C19: the vocabulary built for a call is strictly ascending (sorted, no
\* duplicates), its labels are exactly the trimmed, lower-cased labels of the
\* valid items of the corpus, and every valid item is encoded over that one
\* vocabulary.
C19_Vocabulary ==
    call.op = "encodeCorpus" =>
        LET allGenres == result.allGenres
            valid     == SelectSeq(allBooks, LAMBDA b : b.genre_name \notin {None, Some(<<>>)})
        IN  /\ \A i \in 1..(Len(allGenres) - 1) : StrLess(allGenres[i], allGenres[i + 1])
            /\ Range(allGenres) = ValidLabels
            /\ Len(result.genreVectors) = Len(valid)
            /\ \A i \in 1..Len(valid) :
                  IsEncodingOf(result.genreVectors[i], valid[i], allGenres)

\* a corpus with a book without genre, and labels written with capitals and
\* blanks that give a vocabulary of two labels
C19_Witness ==
    /\ call.op = "encodeCorpus"
    /\ result.allGenres = << <<"f">>, <<"s">> >>
    /\ \E i \in 1..Len(allBooks) : allBooks[i].genre_name = None
    /\ \E i \in 1..Len(allBooks) :
          allBooks[i].genre_name = Some(<<"F", " ", ",", " ", "s">>)
    /\ Len(result.genreVectors) = 2
    /\ result.genreVectors[1] # result.genreVectors[2]

\* C20: the genre vector of a book has the length of the vocabulary and holds
\* 1 at index i exactly when the book carries the i-th label (the book's genre
\* field split on commas, trimmed and lower-cased), else 0; a book without
\* genre information gets the all-zero vector.
C20_GenreVector ==
    call.op = "createGenreVector" =>
        LET book == allBooks[call.target]
        IN  /\ IsEncodingOf(result, book, call.genres)
            /\ book.genre_name \in {None, Some(<<>>)}
                  => result = [i \in 1..Len(call.genres) |-> 0]

C20_Witness ==
    /\ call.op = "createGenreVector"
    /\ allBooks[call.target].genre_name = Some(<<"F", " ", ",", " ", "s">>)
    /\ call.genres = << <<"F">>, <<"s">>, <<"x">> >>
    /\ result = <<1, 1, 0>>

-----------------------------------------------------------------------------
(* Properties of the routes, checked under SpecRoute *)

\* the request being served is a GET of the application for a path
IsGet(app, path) ==
    /\ http.stage # "none"
    /\ http.app = app
    /\ http.method = "GET"
    /\ http.path = path

\* the request being served is GET /recommend/user/:userId
IsGetRecommendUser ==
    /\ http.stage # "none"
    /\ http.app = "recommend"
    /\ http.method = "GET"
    /\ Len(http.path) = 2
    /\ http.path[1] = wUser

\* C15: GET /recommend/user/:userId by an authenticated requester who is not
\* a pustakawan and whose id is not the number read from :userId makes no
\* query, carries no recommendations and ends with 403; a book_history query
\* for, or a 200 response about, a user other than the requester occurs only
\* for a pustakawan.
C15_OnlyLibrarianSeesOthers ==
    IsGetRecommendUser =>
        LET userId == parseInt(http.path[2])
            own    == http.token # None /\ Some(http.token[1].id) = userId
            role   == IF http.token = None THEN "" ELSE http.token[1].role
        IN  /\ (http.token # None /\ role # "pustakawan" /\ ~own)
                  => /\ http.queries = <<>>
                     /\ http.recommendations = <<>>
                     /\ http.stage = "done" => http.status = 403
            /\ (~own /\ (http.queries # <<>> \/ http.status = 200))
                  => role = "pustakawan"

\* pupil 1 asks for the recommendations of pupil 2, who has a history
C15_Witness ==
    /\ IsGetRecommendUser
    /\ http.stage = "done"
    /\ http.token = Some([id |-> 1, role |-> "siswa"])
    /\ http.path[2] = <<"2">>
    /\ historyRowsOf(Some(2)) # {}
    /\ http.ran = <<"authMiddleware", "recommend.user">>
    /\ http.status = 403

\* C16: a GET /users/history request runs only the handlers of the
\* '/history' route, never pustakawanOnly or the '/:id' handler, so every
\* authenticated requester is answered by the history handler; GET
\* /recommend/me and GET /recommend/user/:userId never run the handler of
\* GET /recommend/:id and, once authenticated, are answered by their own.
C16_LiteralRoutesFirst ==
    /\ IsGet("users", <<wHistory>>)
          => /\ \A k \in 1..Len(http.ran) :
                    http.ran[k] \in {"authMiddleware", "users.history"}
             /\ (http.stage = "done" /\ http.token # None)
                    => http.ran = <<"authMiddleware", "users.history">>
    /\ (IsGet("recommend", <<wMe>>) \/ IsGetRecommendUser)
          => /\ \A k \in 1..Len(http.ran) : http.ran[k] # "recommend.byId"
             /\ (http.stage = "done" /\ http.token # None)
                    => http.ran = <<"authMiddleware",
                                    IF http.path = <<wMe>> THEN "recommend.me"
                                    ELSE "recommend.user">>

\* a pupil's GET /users/history is answered by the history handler
C16_Witness ==
    /\ IsGet("users", <<wHistory>>)
    /\ http.stage = "done"
    /\ http.token = Some([id |-> 1, role |-> "siswa"])
    /\ http.status = 200
    /\ http.body = "users.history"

-----------------------------------------------------------------------------
(* Properties of the personalised routes, checked under SpecRoute *)

\* GET /recommend/me or GET /recommend/user/:userId has read the history of
\* its user
HistoryWasRead ==
    /\ http.stage \in {"popular", "books", "done"}
    /\ Len(http.queries) = 2
    /\ http.ran[Len(http.ran)] \in {"recommend.me", "recommend.user"}

\* the number of book_history rows of a book
ViewCountOf(id) == Cardinality({h \in bookHistory : h.book_id = id})

C23_ViewedBooksExcluded ==
    (HistoryWasRead /\ http.rows # {} /\ http.stage = "done")
        => LET viewed == {entry.book_id : entry \in http.rows}
           IN  /\ Len(http.engine) = 1
               /\ http.engine[1].op = "scoreForUser"
               /\ \A k \in 1..Len(http.engine[1].pool) :
                     http.engine[1].pool[k].id \notin viewed
               /\ \A i \in 1..Len(allBooks) :
                     allBooks[i].id \notin viewed
                         => \E k \in 1..Len(http.engine[1].pool) :
                               http.engine[1].pool[k].id = allBooks[i].id
               /\ \A k \in 1..Len(http.recommendations) :
                     http.recommendations[k].book.id \notin viewed

\* pupil 2 has viewed books 1 and 2 when the history is read and book 3
\* since: book 3 is the one recommended
C23_Witness ==
    /\ HistoryWasRead /\ http.stage = "done"
    /\ {entry.book_id : entry \in http.rows} = {1, 2}
    /\ Len(allBooks) = 3
    /\ Len(http.recommendations) = 1
    /\ http.recommendations[1].book.id = 3
    /\ \E h \in bookHistory : h.user_id = 2 /\ h.book_id = 3
    /\ http.body = "Personalized recommendations for student"

-----------------------------------------------------------------------------
(* Properties of the users routes, checked under SpecUsers *)

\* the request in slot r was a POST /users that has responded
PostDone(r) == requests[r].stage = "done" /\ requests[r].method = "POST"

\* the requests in slots r and q were being served at the same time
Concurrent(r, q) == q \in requests[r].peers \/ r \in requests[q].peers

\* C24: whatever the interleaving of concurrent POST /users and PUT
\* /users/:id requests, no two rows of the users table hold the same
\* username (nor the same id), and of two concurrent creations of the same
\* username at most one responds 201.
C24_UsernamesStayUnique ==
    /\ \A x, y \in users.rows :
          x # y => (~SameUsername(x.username, y.username) /\ x.id # y.id)
    /\ \A r, q \in Requests :
          (r # q /\ PostDone(r) /\ PostDone(q) /\ Concurrent(r, q)
               /\ requests[r].status = 201 /\ requests[q].status = 201)
              => ~SameUsername(requests[r].username[1], requests[q].username[1])

\* two concurrent creations of the same username that both found it free:
\* one has responded 201, the INSERT of the other was rejected
C24_Witness ==
    \E r, q \in Requests :
        /\ r # q /\ PostDone(r) /\ PostDone(q) /\ Concurrent(r, q)
        /\ requests[r].username = Some(<<"f">>)
        /\ requests[q].username = Some(<<"F">>)
        /\ requests[r].existing = {} /\ requests[q].existing = {}
        /\ requests[r].status = 201
        /\ requests[q].refused
        /\ Cardinality(users.rows) = 3

\* C25: a POST /users whose username is held by a user, either when the
\* handler looks it up or, created by another request in the meantime, when
\* its INSERT is executed, responds 409 'Username already exists' and has
\* not changed the users table.
C25_DuplicateAnswered409 ==
    \A r \in Requests :
        (PostDone(r) /\ (requests[r].existing # {} \/ requests[r].refused))
            => /\ requests[r].status = 409
               /\ requests[r].body = "Username already exists"
               /\ ~requests[r].wrote

\* the username was free when it was looked up and taken when the INSERT
\* was executed: the request has responded 500 and written nothing
C25_Witness ==
    \E r \in Requests :
        /\ PostDone(r)
        /\ requests[r].existing = {}
        /\ requests[r].refused
        /\ ~requests[r].wrote
        /\ requests[r].status = 500
        /\ requests[r].body = "Failed to create user"
        /\ idsByUsername(users, requests[r].username[1]) # {}

-----------------------------------------------------------------------------
(* Properties of the student-history view, checked under SpecView *)

\* the view shows a student whose fetched history is not empty, and no API
\* call of it is pending
ShowsHistoryAtRest ==
    /\ client.page = "studentHistory"
    /\ client.delivered
    /\ Len(client.bookHistory) > 0
    /\ client.pending = {}

\* the emptiness test of fetchRecommendations is made only after a history
\* fetch has delivered its result
C26_TestedAfterDelivery ==
    (client.page = "studentHistory" /\ client.tested) => client.delivered

\* once the view is at rest with a non-empty history, the recommendations of
\* the student have been requested
C26_RequestedAtRest ==
    ShowsHistoryAtRest => "getPersonalizedForUser" \in client.sent

\* C26: when the view is mounted for a student with a non-empty history, the
\* recommendations are requested, the emptiness test on the history being
\* made only after the history fetch has delivered its result.
C26_RecommendationsFollowHistory ==
    C26_TestedAfterDelivery /\ C26_RequestedAtRest

\* a librarian sees the non-empty history of student 2 and nothing is pending
C26_Witness ==
    /\ ShowsHistoryAtRest
    /\ client.user = Some([id |-> 1, role |-> "pustakawan"])
    /\ client.studentId = 2
    /\ client.tested
    /\ client.recommendations = <<>>

-----------------------------------------------------------------------------
(* Properties of the auth store, checked under SpecAuth *)

\* a logout() call completes in this step
LogoutCompletes ==
    /\ client.page = "store"
    /\ client'.page = "store"
    /\ client'.awaiting < client.awaiting

\* nothing of the session is left and /login was pushed
SessionCleared(store) ==
    /\ store.token = None
    /\ store.item = None
    /\ store.user = None
    /\ ~isLoggedIn(store)
    /\ store.route = "/login"

\* C27: when logout() completes, the items 'token' and 'user' are gone from
\* localStorage, the store's user is null (isLoggedIn is false) and /login
\* was pushed, whether authAPI.logout() resolved or rejected.
C27_LogoutClearsSession ==
    [][LogoutCompletes => SessionCleared(client')]_vars

\* a logout() whose server call was rejected has completed, another one is
\* still waiting
C27_Witness ==
    /\ client.page = "store"
    /\ client.last = "rejected"
    /\ client.awaiting = 1
    /\ SessionCleared(client)

-----------------------------------------------------------------------------
(* The range of the scores, checked under SpecRange *)

\* x lies in [0, 1] (NaN and the infinities do not)
InUnitRange(x) ==
    /\ x.den # 0
    /\ RatCmp(x, Rat(0, 1)) >= 0
    /\ RatCmp(x, Rat(1, 1)) <= 0

NonNegativeWeights(profile) == \A g \in DOMAIN profile : profile[g] >= 0

NonNegativePopularity(books) ==
    \A i \in 1..Len(books) :
        books[i].view_count = None \/ books[i].view_count[1] >= 0

\* the labels of every item differ after trimming and lower-casing
DistinctLabels(books) ==
    \A i \in 1..Len(books) :
        Falsy(books[i].genre_name) \/
        LET bookGenres == bookGenresOf(books[i])
        IN  \A a, b \in 1..Len(bookGenres) :
                a # b => bookGenres[a] # bookGenres[b]

CandidatesInCorpus(pool, books) ==
    \A i \in 1..Len(pool) : \E j \in 1..Len(books) : books[j] = pool[i]

NoFutureTimestamp(books) ==
    \A i \in 1..Len(books) :
        books[i].created_at = None \/ books[i].created_at[1] <= now

\* the conditions under which the range is claimed
RangeConditions ==
    /\ call.op = "scoreForUser"
    /\ NonNegativeWeights(call.profile)
    /\ NonNegativePopularity(allBooks)
    /\ DistinctLabels(call.pool)
    /\ CandidatesInCorpus(call.pool, allBooks)
    /\ NoFutureTimestamp(call.pool)

\* C28: with non-negative profile weights and view counts, pairwise distinct
\* labels in every item, every candidate in the corpus and no creation time
\* after the call, every score scoreForUser returns lies in [0, 1].
C28_ScoresInUnitRange ==
    RangeConditions =>
        \A i \in 1..Len(result) : InUnitRange(result[i].similarity)

\* under the conditions a call returned a score of exactly 1 and another
\* below it
C28_Witness ==
    /\ RangeConditions
    /\ \E i, j \in 1..Len(result) :
          /\ RatCmp(result[i].similarity, Rat(1, 1)) = 0
          /\ RatCmp(result[j].similarity, Rat(1, 1)) < 0

-----------------------------------------------------------------------------
(* A target without genre, checked under Spec *)

\* the title of book i contains the query, letter case aside
TitleMatches(i) ==
    includes(toLowerCase(allBooks[i].title), toLowerCase(call.query))

\* book i is the first book whose title matches
FirstTitleMatch(i) ==
    /\ TitleMatches(i)
    /\ \A j \in 1..(i - 1) : ~TitleMatches(j)

\* C29: recommendSimilar for a target that is in the corpus without a genre
\* returns an empty list whatever else the corpus holds, and so does
\* recommendByLabel when the first title match has no genre, even if a later
\* match has one.
C29_TargetWithoutGenre ==
    /\ (/\ call.op = "recommendSimilar"
        /\ \E i \in 1..Len(allBooks) :
              allBooks[i].id = call.target /\ Falsy(allBooks[i].genre_name))
        => result = <<>>
    /\ (/\ call.op = "recommendByLabel"
        /\ \E i \in 1..Len(allBooks) :
              FirstTitleMatch(i) /\ Falsy(allBooks[i].genre_name))
        => result = <<>>

\* a title search with a positive count whose first match has no genre while
\* a later match and another book have one
C29_Witness ==
    /\ call.op = "recommendByLabel"
    /\ call.topN > 0
    /\ result = <<>>
    /\ \E i, j, k \in 1..Len(allBooks) :
          /\ FirstTitleMatch(i) /\ allBooks[i].genre_name = None
          /\ j > i /\ TitleMatches(j) /\ ~Falsy(allBooks[j].genre_name)
          /\ k # j /\ ~Falsy(allBooks[k].genre_name)

-----------------------------------------------------------------------------
(* The arguments after a call, checked under SpecHeap *)

\* an engine call is made and returns in this step
EngineCallReturns == call = NoCall /\ call' # NoCall

\* the arrays refer to the same books in the same order, the books have the
\* fields they had, the Map has the entries it had
ArgumentsUntouched ==
    /\ heap'.corpus = heap.corpus
    /\ heap'.pool = heap.pool
    /\ heap'.profile = heap.profile
    /\ \A r \in 1..heap.args : heap'.items[r] = heap.items[r]
    /\ allBooks' = allBooks

\* object r of the new state is a copy of book a with the field similarity
\* added to it
CopyWithSimilarity(r, a) ==
    /\ DOMAIN heap'.items[r] = DOMAIN heap.items[a] \cup {"similarity"}
    /\ "similarity" \notin DOMAIN heap.items[a]
    /\ \A f \in DOMAIN heap.items[a] : heap'.items[r][f] = heap.items[a][f]

\* every entry of the returned array is an object of its own that did not
\* exist before the call, a copy of a book passed in
ReturnsFreshCopies ==
    \A k \in 1..Len(heap'.out) :
        LET r == heap'.out[k]
        IN  /\ r > Len(heap.items)
            /\ \A j \in 1..Len(heap'.out) : j # k => heap'.out[j] # r
            /\ \E a \in 1..heap.args :
                  /\ \E i \in 1..Len(heap.corpus) : heap.corpus[i] = a
                  /\ call'.op = "scoreForUser" =>
                         \E i \in 1..Len(heap.pool) : heap.pool[i] = a
                  /\ CopyWithSimilarity(r, a)

\* C30: no engine call modifies its arguments: when recommendSimilar,
\* recommendByLabel or scoreForUser returns, the corpus and pool arrays hold
\* the same items in the same order with unchanged fields and the profile
\* has the same entries; each returned entry is a fresh copy of an item with
\* one added similarity field.
C30_ArgumentsUnmodified ==
    [][EngineCallReturns => (ArgumentsUntouched /\ ReturnsFreshCopies)]_vars

\* scoreForUser has returned two or more copies, the first of them not the
\* copy of the first candidate: the sort had to reorder
C30_Witness ==
    /\ call.op = "scoreForUser"
    /\ Len(heap.out) >= 2
    /\ heap.out[1] > heap.args
    /\ heap.items[heap.out[1]].id # heap.items[heap.pool[1]].id
    /\ Deref(heap, heap.pool) = call.pool

====
